---------------------------- MODULE Spec2Model ----------------------------
(***************************************************************************)
(* Model of the disjunctive detectable-precedences propagator of Pumpkin:  *)
(* the union-find over time slices, the Timeline and RevTimeline, the task *)
(* view and DetectablePrecedencesPropagator::propagate with its two        *)
(* sweeps.  Vectors are functions over 0..len-1, as in the source; an      *)
(* Option is the empty sequence (None) or a one-element sequence (Some).   *)
(***************************************************************************)
EXTENDS Integers, Sequences, FiniteSets, TLC

VARIABLES
    tasks,            \* self.tasks: local_id -> duration
    lb, ub,           \* the solver's domain store: local_id -> bound of starting_time
    input,            \* bounds the instance was created with
    entry,            \* bounds at entry to the running propagate call
    calls,            \* number of propagate calls started
    pc,               \* position inside propagate
    assignments,      \* the clone of context.assignments the running sweep reads
    reason,           \* the naive reason built at the start of the sweep
    timeline,         \* Timeline (forward sweep) or RevTimeline (reverse sweep)
    i_lst, i_ect,     \* the two sorted task vectors of the running sweep
    pos,              \* index of the next iteration of the sweep's for loop
    j,                \* cursor into i_lst (forward) or i_ect (reverse)
    blocking_task,    \* Option<task>
    postponed_tasks,  \* Vec<task>, as a sequence of local ids
    propagations,     \* HashMap local_id -> (bound, reason)
    pending,          \* keys of propagations the apply loop has not visited yet
    status,           \* what propagate returned: "none", "Ok" or "Conflict"
    returned_at,      \* the return statement taken
    conflict,         \* the reason carried by Inconsistency::Conflict
    lastCall,         \* the last set_lower_bound / set_upper_bound call made
    scheduled,        \* tasks scheduled on a timeline built on its own, in call order
    uf,               \* UnionFind.parent of a union-find used on its own
    uf_call,          \* the last find / union call made on uf
    domain,           \* the values left in each start variable, where tracked
    source,           \* the DIMACS input: its opening lines and the room after them
    consumed,         \* the bytes the reader has handed to the parser
    parser,           \* the DimacsParser
    parsed,           \* what parse_cnf / parse_wcnf returned
    cut               \* where chunk boundaries fell inside a header, comment or literal

vars == <<tasks, lb, ub, input, entry, calls, pc, assignments, reason, timeline,
          i_lst, i_ect, pos, j, blocking_task, postponed_tasks, propagations,
          pending, status, returned_at, conflict, lastCall, scheduled, uf,
          uf_call, domain, source, consumed, parser, parsed, cut>>

\* The state of a DIMACS parse.
dimacs_vars == <<source, consumed, parser, parsed, cut>>

\* What propagate never touches: it builds its own timelines and union-finds.
unit_vars == <<scheduled, uf, uf_call, domain, dimacs_vars>>

(***************************************************************************)
(* Bounds of the model.                                                    *)
(***************************************************************************)
MaxTasks == 3
MaxDur == 2
NegTime == 1
MaxTime == 2
MaxCalls == 2
MaxSlices == 4
MaxRemovals == 2

Ids(n) == 0 .. (n - 1)
Durations == 1 .. MaxDur
Times == (0 - NegTime) .. MaxTime

None == << >>
Some(x) == << x >>

VLen(v) == Cardinality(DOMAIN v)
VPush(v, x) == [k \in 0 .. VLen(v) |-> IF k < VLen(v) THEN v[k] ELSE x]
Min(a, b) == IF a <= b THEN a ELSE b
Max(a, b) == IF a >= b THEN a ELSE b

RECURSIVE SumOver(_, _)
SumOver(f, S) ==
    IF S = {} THEN 0
    ELSE LET x == CHOOSE y \in S : TRUE IN f[x] + SumOver(f, S \ {x})

SetMax(S) == CHOOSE x \in S : \A y \in S : y <= x
SetMin(S) == CHOOSE x \in S : \A y \in S : x <= y

(***************************************************************************)
(* Vec::sort_by is a stable sort: tasks with equal keys keep the order of  *)
(* self.tasks, which is the order of their local ids.                      *)
(***************************************************************************)
SortBy(key) ==
    LET n == VLen(key)
        rank(x) == Cardinality({y \in Ids(n) :
                        key[y] < key[x] \/ (key[y] = key[x] /\ y < x)})
    IN  [p \in Ids(n) |-> CHOOSE x \in Ids(n) : rank(x) = p]

(***************************************************************************)
(* TaskDisj: the four quantities read from a bounds snapshot a.            *)
(***************************************************************************)
get_est(t, a) == a.lb[t]
get_lst(t, a) == a.ub[t]
get_ect(t, a) == a.lb[t] + tasks[t]
get_lct(t, a) == a.ub[t] + tasks[t]

(***************************************************************************)
(* UnionFind.  find compresses the path it walks, so it returns the new    *)
(* parent vector together with the root.                                   *)
(***************************************************************************)
UnionFindNew(n) == [x \in Ids(n) |-> x]

RECURSIVE find(_, _)
find(parent, x) ==
    IF parent[x] # x
    THEN LET r == find(parent, parent[x])
         IN  [parent |-> [r.parent EXCEPT ![x] = r.root], root |-> r.root]
    ELSE [parent |-> parent, root |-> x]

\* union with the root of y hung under the root of x.
union_under_x(parent, x, y) ==
    LET fx == find(parent, x)
        fy == find(fx.parent, y)
    IN  IF fx.root = fy.root
        THEN fy.parent
        ELSE [fy.parent EXCEPT ![fy.root] = fx.root]

union(parent, x, y) ==
    LET fx == find(parent, x)
        fy == find(fx.parent, y)
    IN  IF fx.root = fy.root
        THEN fy.parent
        ELSE [fy.parent EXCEPT ![fx.root] = fy.root]

(***************************************************************************)
(* Timeline::new and RevTimeline::new.  fill walks the sorted tasks and    *)
(* pushes a time point whenever it differs from the last one pushed.       *)
(***************************************************************************)
\* The loop pushing a time point for every task, equal to the last or not.
RECURSIVE fill_every_task(_, _, _, _)
fill_every_task(order, key, p, acc) ==
    IF p >= VLen(order) THEN acc
    ELSE LET task == order[p]
             t1 == VPush(acc.t, key[task])
         IN  fill_every_task(order, key, p + 1,
                  [t |-> t1, m |-> [acc.m EXCEPT ![task] = VLen(t1) - 1]])

RECURSIVE fill(_, _, _, _)
fill(order, key, p, acc) ==
    IF p >= VLen(order) THEN acc
    ELSE LET task == order[p]
             t1 == IF VLen(acc.t) = 0 \/ acc.t[VLen(acc.t) - 1] # key[task]
                   THEN VPush(acc.t, key[task])
                   ELSE acc.t
         IN  fill(order, key, p + 1,
                  [t |-> t1, m |-> [acc.m EXCEPT ![task] = VLen(t1) - 1]])

\* The sentinel put at the highest LCT, without the sum of the durations.
TimelineNew_sentinel_at_highest_lct(a) ==
    LET n == VLen(tasks)
        est == [x \in Ids(n) |-> get_est(x, a)]
        tasks_est == SortBy(est)
        f == fill(tasks_est, est, 0, [t |-> << >>, m |-> [x \in Ids(n) |-> 0]])
        highest_lct == SetMax({get_lct(x, a) : x \in Ids(n)})
        t == VPush(f.t, highest_lct)
    IN  [t |-> t,
         c |-> [k \in Ids(VLen(t) - 1) |-> t[k + 1] - t[k]],
         m |-> f.m,
         e |-> -1,
         s |-> UnionFindNew(VLen(t)),
         fault |-> FALSE]

TimelineNew(a) ==
    LET n == VLen(tasks)
        est == [x \in Ids(n) |-> get_est(x, a)]
        tasks_est == SortBy(est)
        f == fill(tasks_est, est, 0, [t |-> << >>, m |-> [x \in Ids(n) |-> 0]])
        highest_lct == SetMax({get_lct(x, a) : x \in Ids(n)})
        t == VPush(f.t, highest_lct + SumOver(tasks, Ids(n)))
    IN  [t |-> t,
         c |-> [k \in Ids(VLen(t) - 1) |-> t[k + 1] - t[k]],
         m |-> f.m,
         e |-> -1,
         s |-> UnionFindNew(VLen(t)),
         fault |-> FALSE]

RevTimelineNew(a) ==
    LET n == VLen(tasks)
        lct == [x \in Ids(n) |-> get_lct(x, a)]
        tasks_lct == SortBy([x \in Ids(n) |-> 0 - lct[x]])
        f == fill(tasks_lct, lct, 0, [t |-> << >>, m |-> [x \in Ids(n) |-> 0]])
        lowest_est == SetMin({get_est(x, a) : x \in Ids(n)})
        t == VPush(f.t, lowest_est - SumOver(tasks, Ids(n)))
    IN  [t |-> t,
         c |-> [k \in Ids(VLen(t) - 1) |-> t[k] - t[k + 1]],
         m |-> f.m,
         e |-> -1,
         s |-> UnionFindNew(VLen(t)),
         fault |-> FALSE]

(***************************************************************************)
(* schedule_task, the same code in Timeline and RevTimeline.  pour is the  *)
(* while loop; indexing c outside its bounds panics, which the model keeps *)
(* as the fault flag of the timeline.                                      *)
(***************************************************************************)
\* The while loop pouring all the work into the first slice.
RECURSIVE pour_into_one_slice(_, _, _)
pour_into_one_slice(tl, rho, k) ==
    IF rho > 0
    THEN IF k \notin DOMAIN tl.c
         THEN [tl EXCEPT !.fault = TRUE]
         ELSE LET delta == rho
                  c1 == [tl.c EXCEPT ![k] = @ - delta]
              IN  IF c1[k] = 0
                  THEN LET s1 == union(tl.s, k, k + 1)
                           f == find(s1, k)
                       IN  pour_into_one_slice(
                               [tl EXCEPT !.c = c1, !.s = f.parent],
                               rho - delta, f.root)
                  ELSE pour_into_one_slice([tl EXCEPT !.c = c1], rho - delta, k)
    ELSE [tl EXCEPT !.e = Max(tl.e, k)]

\* The while loop ending with e = k, the slice this call stopped in.
RECURSIVE pour_e_of_last_call(_, _, _)
pour_e_of_last_call(tl, rho, k) ==
    IF rho > 0
    THEN IF k \notin DOMAIN tl.c
         THEN [tl EXCEPT !.fault = TRUE]
         ELSE LET delta == Min(tl.c[k], rho)
                  c1 == [tl.c EXCEPT ![k] = @ - delta]
              IN  IF c1[k] = 0
                  THEN LET s1 == union(tl.s, k, k + 1)
                           f == find(s1, k)
                       IN  pour_e_of_last_call(
                               [tl EXCEPT !.c = c1, !.s = f.parent],
                               rho - delta, f.root)
                  ELSE pour_e_of_last_call([tl EXCEPT !.c = c1], rho - delta, k)
    ELSE [tl EXCEPT !.e = k]

\* The while loop merging a slice only when work is left to pour after it.
RECURSIVE pour_merge_when_work_left(_, _, _)
pour_merge_when_work_left(tl, rho, k) ==
    IF rho > 0
    THEN IF k \notin DOMAIN tl.c
         THEN [tl EXCEPT !.fault = TRUE]
         ELSE LET delta == Min(tl.c[k], rho)
                  c1 == [tl.c EXCEPT ![k] = @ - delta]
              IN  IF c1[k] = 0 /\ (rho - delta > 0 \/ delta = 0)
                  THEN LET s1 == union(tl.s, k, k + 1)
                           f == find(s1, k)
                       IN  pour_merge_when_work_left(
                               [tl EXCEPT !.c = c1, !.s = f.parent],
                               rho - delta, f.root)
                  ELSE pour_merge_when_work_left([tl EXCEPT !.c = c1],
                                                 rho - delta, k)
    ELSE [tl EXCEPT !.e = Max(tl.e, k)]

RECURSIVE pour(_, _, _)
pour(tl, rho, k) ==
    IF rho > 0
    THEN IF k \notin DOMAIN tl.c
         THEN [tl EXCEPT !.fault = TRUE]
         ELSE LET delta == Min(tl.c[k], rho)
                  c1 == [tl.c EXCEPT ![k] = @ - delta]
              IN  IF c1[k] = 0
                  THEN LET s1 == union(tl.s, k, k + 1)
                           f == find(s1, k)
                       IN  pour([tl EXCEPT !.c = c1, !.s = f.parent],
                                rho - delta, f.root)
                  ELSE pour([tl EXCEPT !.c = c1], rho - delta, k)
    ELSE [tl EXCEPT !.e = Max(tl.e, k)]

schedule_task(tl, task) ==
    LET f == find(tl.s, tl.m[task])
    IN  pour([tl EXCEPT !.s = f.parent], tasks[task], f.root)

\* The right edge of slice e, whatever capacity the slice has left.
earliest_completion_time_right_edge(tl) ==
    IF tl.e = -1 THEN 0
    ELSE tl.t[tl.e + 1]

earliest_completion_time(tl) ==
    IF tl.e = -1 THEN 0
    ELSE tl.t[tl.e + 1] - tl.c[tl.e]

\* The remaining capacity taken off the edge, as the forward timeline does.
latest_starting_time_forward(tl) ==
    IF tl.e = -1 THEN tl.t[0]
    ELSE tl.t[tl.e + 1] - tl.c[tl.e]

latest_starting_time(tl) ==
    IF tl.e = -1 THEN tl.t[0]
    ELSE tl.t[tl.e + 1] + tl.c[tl.e]


(***************************************************************************)
(* Reading the timeline panics when e has run past the last slice.         *)
(***************************************************************************)
read_fault(tl) == tl.fault \/ (tl.e # -1 /\ tl.e \notin DOMAIN tl.c)

(***************************************************************************)
(* Predicates and reasons.  predicate![x >= v] is <<x, ">=", v>>; a        *)
(* PropositionalConjunction is the set of its predicates.                  *)
(***************************************************************************)
naive_reason(a) ==
    UNION {{<<x, ">=", get_est(x, a)>>, <<x, "<=", get_lst(x, a)>>} :
              x \in DOMAIN tasks}

\* The conjunction of the blocking task's bounds alone.
blocking_reason_of_block_task(block_task, k, a) ==
    {<<block_task, ">=", get_est(block_task, a)>>,
     <<block_task, "<=", get_lst(block_task, a)>>}

blocking_reason(block_task, k, a) ==
    {<<block_task, ">=", get_est(block_task, a)>>,
     <<block_task, "<=", get_lst(block_task, a)>>,
     <<k, ">=", get_est(k, a)>>,
     <<k, "<=", get_lst(k, a)>>}

(***************************************************************************)
(* The local variables of a sweep, as one record.                          *)
(***************************************************************************)
Locals ==
    [timeline |-> timeline, j |-> j, blocking_task |-> blocking_task,
     postponed_tasks |-> postponed_tasks, propagations |-> propagations,
     conflict |-> None, panic |-> FALSE]

sweep_start(tl) ==
    [timeline |-> tl, j |-> 0, blocking_task |-> None,
     postponed_tasks |-> << >>, propagations |-> << >>,
     conflict |-> None, panic |-> FALSE]

map_insert(P, key, val) ==
    [x \in (DOMAIN P) \cup {key} |-> IF x = key THEN val ELSE P[x]]

(***************************************************************************)
(* Forward sweep (propagate).  record_lb is the guarded insert into the    *)
(* propagations map: a bound is stored when the task has none yet or the   *)
(* new one is strictly greater.                                            *)
(***************************************************************************)
\* A push carrying a reason of its own task only.
record_lb_own_reason(P, task, ect_timeline, r) ==
    IF task \notin DOMAIN P \/ ect_timeline > P[task].bound
    THEN map_insert(P, task, [bound |-> ect_timeline,
                              reason |-> {q \in r : q[1] = task}])
    ELSE P

record_lb(P, task, ect_timeline, r) ==
    IF task \notin DOMAIN P \/ ect_timeline > P[task].bound
    THEN map_insert(P, task, [bound |-> ect_timeline, reason |-> r])
    ELSE P

RECURSIVE record_lb_all(_, _, _, _)
record_lb_all(P, zs, ect_timeline, r) ==
    IF zs = << >> THEN P
    ELSE record_lb_all(record_lb(P, Head(zs), ect_timeline, r),
                       Tail(zs), ect_timeline, r)

\* The cursor allowed onto the last element: j < i_lst.len().
forward_cursor_bound_whole(lst) == VLen(lst)

\* while j < i_lst.len() - 1, line 256.
forward_cursor_bound(lst) == VLen(lst) - 1

\* The while loop scheduling a task at the moment it becomes blocking too.
RECURSIVE forward_cursor_schedules_blocking(_, _, _, _)
forward_cursor_schedules_blocking(L, lst, a, ect_i) ==
    LET k == lst[L.j]
        ect_k == get_ect(k, a)
        lst_k == get_lst(k, a)
    IN  IF L.j < forward_cursor_bound(lst) /\ lst_k < ect_i
        THEN IF lst_k >= ect_k
             THEN forward_cursor_schedules_blocking(
                      [L EXCEPT !.timeline = schedule_task(@, k), !.j = @ + 1],
                      lst, a, ect_i)
             ELSE IF L.blocking_task # None
                  THEN [L EXCEPT !.conflict =
                            Some(blocking_reason(L.blocking_task[1], k, a))]
                  ELSE forward_cursor_schedules_blocking(
                           [L EXCEPT !.timeline = schedule_task(@, k),
                                     !.blocking_task = Some(k), !.j = @ + 1],
                           lst, a, ect_i)
        ELSE L

RECURSIVE forward_cursor(_, _, _, _)
forward_cursor(L, lst, a, ect_i) ==
    LET k == lst[L.j]
        ect_k == get_ect(k, a)
        lst_k == get_lst(k, a)
    IN  IF L.j < forward_cursor_bound(lst) /\ lst_k < ect_i
        THEN IF lst_k >= ect_k
             THEN forward_cursor(
                      [L EXCEPT !.timeline = schedule_task(@, k), !.j = @ + 1],
                      lst, a, ect_i)
             ELSE IF L.blocking_task # None
                  THEN [L EXCEPT !.conflict =
                            Some(blocking_reason(L.blocking_task[1], k, a))]
                  ELSE forward_cursor(
                           [L EXCEPT !.blocking_task = Some(k), !.j = @ + 1],
                           lst, a, ect_i)
        ELSE L

\* The for loop body leaving the postponed tasks in the list after use.
forward_iteration_keeps_postponed(L0, lst, a, r, i) ==
    LET L == forward_cursor(L0, lst, a, get_ect(i, a))
    IN  IF L.conflict # None THEN L
        ELSE IF L.blocking_task = None
        THEN IF read_fault(L.timeline) THEN [L EXCEPT !.panic = TRUE]
             ELSE [L EXCEPT !.propagations =
                       record_lb(@, i, earliest_completion_time(L.timeline), r)]
        ELSE IF i = L.blocking_task[1]
        THEN IF read_fault(L.timeline) THEN [L EXCEPT !.panic = TRUE]
             ELSE LET P1 == record_lb(L.propagations, i,
                                      earliest_completion_time(L.timeline), r)
                      tl == schedule_task(L.timeline, i)
                  IN  IF read_fault(tl)
                      THEN [L EXCEPT !.timeline = tl, !.panic = TRUE]
                      ELSE [L EXCEPT
                               !.timeline = tl,
                               !.blocking_task = None,
                               !.propagations =
                                   record_lb_all(P1, L.postponed_tasks,
                                                 earliest_completion_time(tl), r)]
        ELSE [L EXCEPT !.postponed_tasks = Append(@, i)]

forward_iteration(L0, lst, a, r, i) ==
    LET L == forward_cursor(L0, lst, a, get_ect(i, a))
    IN  IF L.conflict # None THEN L
        ELSE IF L.blocking_task = None
        THEN IF read_fault(L.timeline) THEN [L EXCEPT !.panic = TRUE]
             ELSE [L EXCEPT !.propagations =
                       record_lb(@, i, earliest_completion_time(L.timeline), r)]
        ELSE IF i = L.blocking_task[1]
        THEN IF read_fault(L.timeline) THEN [L EXCEPT !.panic = TRUE]
             ELSE LET P1 == record_lb(L.propagations, i,
                                      earliest_completion_time(L.timeline), r)
                      tl == schedule_task(L.timeline, i)
                  IN  IF read_fault(tl)
                      THEN [L EXCEPT !.timeline = tl, !.panic = TRUE]
                      ELSE [L EXCEPT
                               !.timeline = tl,
                               !.blocking_task = None,
                               !.propagations =
                                   record_lb_all(P1, L.postponed_tasks,
                                                 earliest_completion_time(tl), r),
                               !.postponed_tasks = << >>]
        ELSE [L EXCEPT !.postponed_tasks = Append(@, i)]

(***************************************************************************)
(* Reverse sweep (propagate_upper_bound).                                  *)
(***************************************************************************)
record_ub(P, task, lst_timeline, r) ==
    IF task \notin DOMAIN P \/ lst_timeline - tasks[task] < P[task].bound
    THEN map_insert(P, task,
                    [bound |-> lst_timeline - tasks[task], reason |-> r])
    ELSE P

RECURSIVE record_ub_all(_, _, _, _)
record_ub_all(P, zs, lst_timeline, r) ==
    IF zs = << >> THEN P
    ELSE record_ub_all(record_ub(P, Head(zs), lst_timeline, r),
                       Tail(zs), lst_timeline, r)

RECURSIVE reverse_cursor(_, _, _, _)
reverse_cursor(L, ect, a, lst_i) ==
    LET k == ect[L.j]
        ect_k == get_ect(k, a)
        lst_k == get_lst(k, a)
    IN  IF L.j < VLen(ect) - 1 /\ ect_k > lst_i
        THEN IF lst_k >= ect_k
             THEN reverse_cursor(
                      [L EXCEPT !.timeline = schedule_task(@, k), !.j = @ + 1],
                      ect, a, lst_i)
             ELSE IF L.blocking_task # None
                  THEN [L EXCEPT !.conflict =
                            Some(blocking_reason(L.blocking_task[1], k, a))]
                  ELSE reverse_cursor(
                           [L EXCEPT !.blocking_task = Some(k), !.j = @ + 1],
                           ect, a, lst_i)
        ELSE L

reverse_iteration(L0, ect, a, r, i) ==
    LET L == reverse_cursor(L0, ect, a, get_lst(i, a))
    IN  IF L.conflict # None THEN L
        ELSE IF L.blocking_task = None
        THEN IF read_fault(L.timeline) THEN [L EXCEPT !.panic = TRUE]
             ELSE [L EXCEPT !.propagations =
                       record_ub(@, i, latest_starting_time(L.timeline), r)]
        ELSE IF i = L.blocking_task[1]
        THEN IF read_fault(L.timeline) THEN [L EXCEPT !.panic = TRUE]
             ELSE LET P1 == record_ub(L.propagations, i,
                                      latest_starting_time(L.timeline), r)
                      tl == schedule_task(L.timeline, i)
                  IN  IF read_fault(tl)
                      THEN [L EXCEPT !.timeline = tl, !.panic = TRUE]
                      ELSE [L EXCEPT
                               !.timeline = tl,
                               !.blocking_task = None,
                               !.propagations =
                                   record_ub_all(P1, L.postponed_tasks,
                                                 latest_starting_time(tl), r),
                               !.postponed_tasks = << >>]
        ELSE [L EXCEPT !.postponed_tasks = Append(@, i)]

(***************************************************************************)
(* The solver's bound-update primitives, on the store [lb, ub].  An update *)
(* that would empty the domain is rejected and leaves the store as it is;  *)
(* an update that does not tighten the bound changes nothing.              *)
(***************************************************************************)
set_lower_bound(store, x, value) ==
    IF value > store.ub[x]
    THEN [ok |-> FALSE, lb |-> store.lb]
    ELSE [ok |-> TRUE, lb |-> [store.lb EXCEPT ![x] = Max(@, value)]]

set_upper_bound(store, x, value) ==
    IF value < store.lb[x]
    THEN [ok |-> FALSE, ub |-> store.ub]
    ELSE [ok |-> TRUE, ub |-> [store.ub EXCEPT ![x] = Min(@, value)]]

(***************************************************************************)
(* The calls of the two apply loops, lines 315-319 and 141-145: the        *)
(* forward loop writes the lower bound, the reverse loop the upper bound.  *)
(***************************************************************************)
\* The forward loop's call written as in the reverse loop (set_upper_bound).
apply_lower_bound_as_upper(store, local_id, ect) ==
    LET x == set_upper_bound(store, local_id, ect)
    IN  [ok |-> x.ok, lb |-> store.lb, ub |-> x.ub]

apply_lower_bound(store, local_id, ect) ==
    LET x == set_lower_bound(store, local_id, ect)
    IN  [ok |-> x.ok, lb |-> x.lb, ub |-> store.ub]

\* The reverse loop's call written as in the forward loop (set_lower_bound).
apply_upper_bound_as_lower(store, local_id, lst) ==
    LET x == set_lower_bound(store, local_id, lst)
    IN  [ok |-> x.ok, lb |-> x.lb, ub |-> store.ub]

apply_upper_bound(store, local_id, lst) ==
    LET x == set_upper_bound(store, local_id, lst)
    IN  [ok |-> x.ok, lb |-> store.lb, ub |-> x.ub]

(***************************************************************************)
(* The filters of the two apply loops: a recorded bound that does not      *)
(* tighten the snapshot's bound is skipped.                                *)
(***************************************************************************)
\* The filter of the forward apply loop with < for <=.
skip_lower_strict(ect, est) == ect < est

skip_lower(ect, est) == ect <= est
skip_upper(lst, cur) == lst >= cur

(***************************************************************************)
(* The snapshot each sweep takes with context.assignments.clone().         *)
(***************************************************************************)
forward_snapshot == [lb |-> lb, ub |-> ub]
\* The reverse sweep reading the snapshot taken at entry to propagate.
reverse_snapshot_entry == entry

reverse_snapshot == [lb |-> lb, ub |-> ub]

\* The map kept from the previous sweep instead of a new one.
stale_propagations == propagations

\* HashMap::new(), line 253: every call starts from an empty map.
fresh_propagations == << >>

\* HashMap::new(), line 80: so does the reverse sweep.
fresh_upper_propagations == << >>

(***************************************************************************)
(* The two orders of each sweep: propagate sorts by LST and by ECT         *)
(* ascending, propagate_upper_bound by LST and by ECT descending.          *)
(***************************************************************************)
\* The forward order by LST taken descending, as the reverse sweep sorts.
forward_i_lst_descending(a) == SortBy([x \in DOMAIN tasks |-> 0 - get_lst(x, a)])

\* The forward order by ECT taken descending, as the reverse sweep sorts.
forward_i_ect_descending(a) == SortBy([x \in DOMAIN tasks |-> 0 - get_ect(x, a)])

forward_i_lst(a) == SortBy([x \in DOMAIN tasks |-> get_lst(x, a)])
forward_i_ect(a) == SortBy([x \in DOMAIN tasks |-> get_ect(x, a)])
reverse_i_lst(a) == SortBy([x \in DOMAIN tasks |-> 0 - get_lst(x, a)])
reverse_i_ect(a) == SortBy([x \in DOMAIN tasks |-> 0 - get_ect(x, a)])

(***************************************************************************)
(* The DIMACS parser (parsers/dimacs.rs).  A byte is a string of one       *)
(* character; a chunk, a String and a file are sequences of bytes.         *)
(***************************************************************************)
Digits == {"0", "1", "2", "3", "4", "5", "6", "7", "8", "9"}
NonZeroDigits == Digits \ {"0"}

DigitValue(b) ==
    CASE b = "0" -> 0 [] b = "1" -> 1 [] b = "2" -> 2 [] b = "3" -> 3
      [] b = "4" -> 4 [] b = "5" -> 5 [] b = "6" -> 6 [] b = "7" -> 7
      [] b = "8" -> 8 [] b = "9" -> 9

\* u8::is_ascii_whitespace: space, tab, line feed, form feed, carriage return.
is_ascii_whitespace(b) == b \in {" ", "\t", "\n", "\f", "\r"}

\* enum DimacsParseError, with "none" for no error, "Ok" for Ok(sink) and
\* "panic" for a panic of the thread.
DimacsParseError(kind) ==
    [kind |-> kind, text |-> << >>, expected |-> 0, parsed |-> 0]

NoError == DimacsParseError("none")
OkSink == DimacsParseError("Ok")
Panic(message) == [DimacsParseError("panic") EXCEPT !.text = <<message>>]
MissingHeader == DimacsParseError("MissingHeader")
InvalidHeader(s) == [DimacsParseError("InvalidHeader") EXCEPT !.text = s]
DuplicateHeader == DimacsParseError("DuplicateHeader")
UnexpectedCharacter(b) ==
    [DimacsParseError("UnexpectedCharacter") EXCEPT !.text = <<b>>]
InvalidLiteral(s) == [DimacsParseError("InvalidLiteral") EXCEPT !.text = s]
UnterminatedClause == DimacsParseError("UnterminatedClause")
IncorrectClauseCount(expected, parsed_clauses) ==
    [DimacsParseError("IncorrectClauseCount") EXCEPT
        !.expected = expected, !.parsed = parsed_clauses]

\* str::parse for the integer types.  The digits are read most significant
\* first; leading zeros and one leading '+' are accepted, for i32 a leading
\* '-' as well.  The result is [ok, value].
all_digits(s) == s # << >> /\ \A k \in DOMAIN s : s[k] \in Digits

RECURSIVE strip_zeros(_)
strip_zeros(s) ==
    IF Len(s) > 1 /\ s[1] = "0" THEN strip_zeros(Tail(s)) ELSE s

RECURSIVE digits_value(_, _)
digits_value(s, sign) ==
    IF s = << >> THEN 0
    ELSE 10 * digits_value(SubSeq(s, 1, Len(s) - 1), sign)
             + sign * DigitValue(s[Len(s)])

\* a <= b for two numbers written with the same number of digits
digits_le(a, b) ==
    \/ a = b
    \/ \E k \in DOMAIN a :
          /\ \A i \in 1 .. (k - 1) : a[i] = b[i]
          /\ DigitValue(a[k]) < DigitValue(b[k])

I32Max == <<"2", "1", "4", "7", "4", "8", "3", "6", "4", "7">>
I32Min == <<"2", "1", "4", "7", "4", "8", "3", "6", "4", "8">>

parse_i32(s) ==
    LET negative == s # << >> /\ s[1] = "-"
        signed == s # << >> /\ s[1] \in {"-", "+"}
        digits == IF signed THEN Tail(s) ELSE s
        d == strip_zeros(digits)
        fits == \/ Len(d) < Len(I32Max)
                \/ /\ Len(d) = Len(I32Max)
                   /\ digits_le(d, IF negative THEN I32Min ELSE I32Max)
    IN  IF all_digits(digits) /\ fits
        THEN [ok |-> TRUE, value |-> digits_value(d, IF negative THEN -1 ELSE 1)]
        ELSE [ok |-> FALSE, value |-> 0]

\* parse::<usize> and parse::<u64>.  A number of ten digits and more cannot
\* be written as a value here and is given as an error; the headers of the
\* model have one digit a number.
parse_unsigned(s) ==
    LET digits == IF s # << >> /\ s[1] = "+" THEN Tail(s) ELSE s
        d == strip_zeros(digits)
    IN  IF all_digits(digits) /\ Len(d) < Len(I32Max)
        THEN [ok |-> TRUE, value |-> digits_value(d, 1)]
        ELSE [ok |-> FALSE, value |-> 0]

\* str::trim, str::starts_with, str::split(' ') and Iterator::skip.
RECURSIVE trim_start(_)
trim_start(s) ==
    IF s # << >> /\ is_ascii_whitespace(s[1]) THEN trim_start(Tail(s)) ELSE s

RECURSIVE trim_end(_)
trim_end(s) ==
    IF s # << >> /\ is_ascii_whitespace(s[Len(s)])
    THEN trim_end(SubSeq(s, 1, Len(s) - 1)) ELSE s

trim(s) == trim_end(trim_start(s))

starts_with(s, prefix) ==
    Len(s) >= Len(prefix) /\ SubSeq(s, 1, Len(prefix)) = prefix

RECURSIVE split(_)
split(s) ==
    IF \A k \in DOMAIN s : s[k] # " " THEN <<s>>
    ELSE LET k == CHOOSE i \in DOMAIN s :
                      s[i] = " " /\ \A h \in 1 .. (i - 1) : s[h] # " "
         IN  <<SubSeq(s, 1, k - 1)>> \o split(SubSeq(s, k + 1, Len(s)))

skip(components, n) == SubSeq(components, n + 1, Len(components))

\* next_header_component, lines 421-430, for the k-th call on the iterator.
next_header_component(components, k) ==
    IF k > Len(components) THEN [ok |-> FALSE, value |-> 0]
    ELSE parse_unsigned(components[k])

NoHeader ==
    [present |-> FALSE, num_variables |-> 0, num_clauses |-> 0, top_weight |-> 0]

\* impl FromStr for CNFHeader, lines 377-399.
CNFHeader_from_str(s) ==
    LET components == skip(split(trim(s)), 2)
        num_variables == next_header_component(components, 1)
        num_clauses == next_header_component(components, 2)
    IN  IF /\ starts_with(s, <<"p", " ", "c", "n", "f", " ">>)
           /\ num_variables.ok
           /\ num_clauses.ok
           /\ Len(components) <= 2
        THEN [err |-> NoError,
              header |-> [present |-> TRUE,
                          num_variables |-> num_variables.value,
                          num_clauses |-> num_clauses.value,
                          top_weight |-> 0]]
        ELSE [err |-> InvalidHeader(s), header |-> NoHeader]

\* impl FromStr for WCNFHeader, lines 351-375.
WCNFHeader_from_str(s) ==
    LET components == skip(split(trim(s)), 2)
        num_variables == next_header_component(components, 1)
        num_clauses == next_header_component(components, 2)
        top_weight == next_header_component(components, 3)
    IN  IF /\ starts_with(s, <<"p", " ", "w", "c", "n", "f", " ">>)
           /\ num_variables.ok
           /\ num_clauses.ok
           /\ top_weight.ok
           /\ Len(components) <= 3
        THEN [err |-> NoError,
              header |-> [present |-> TRUE,
                          num_variables |-> num_variables.value,
                          num_clauses |-> num_clauses.value,
                          top_weight |-> top_weight.value]]
        ELSE [err |-> InvalidHeader(s), header |-> NoHeader]

\* The sink keeps the calls made on it: the hard clauses and the soft
\* clauses with their weights, each in call order.
NoSink == [present |-> FALSE, hard |-> << >>, soft |-> << >>]
empty(num_variables) == [present |-> TRUE, hard |-> << >>, soft |-> << >>]
add_hard_clause(sink, clause) == [sink EXCEPT !.hard = Append(@, clause)]
add_soft_clause(sink, weight, clause) ==
    [sink EXCEPT !.soft = Append(@, [weight |-> weight, clause |-> clause])]

\* The parsers parse_cnf and parse_wcnf build: the Header type and the
\* on_clause closure go together, so the field on_clause names both.
ParseFunctions == {"parse_cnf", "parse_wcnf"}

\* DimacsParser::new, lines 162-173.
DimacsParserNew(f) ==
    [on_clause |-> f,
     sink_constructor_args |-> TRUE,
     sink |-> NoSink,
     header |-> NoHeader,
     buffer |-> << >>,
     clause |-> << >>,
     state |-> "StartLine",
     parsed_clauses |-> 0]

\* A step of the parser gives the parser after it and the error it returned.
Done(p) == [parser |-> p, err |-> NoError]
Failed(p, e) == [parser |-> p, err |-> e]

\* start_literal, lines 263-272.
start_literal(p, b, is_positive) ==
    [p EXCEPT !.state = IF is_positive THEN "Literal" ELSE "NegativeLiteral",
              !.buffer = <<b>>]

\* init_formula, lines 292-305: the header is parsed before the constructor
\* arguments are taken.
init_formula(p) ==
    LET s == trim(p.buffer)
        r == IF p.on_clause = "parse_cnf" THEN CNFHeader_from_str(s)
             ELSE WCNFHeader_from_str(s)
    IN  IF r.err # NoError THEN Failed(p, r.err)
        ELSE IF ~p.sink_constructor_args THEN Failed(p, DuplicateHeader)
        ELSE Done([p EXCEPT !.sink = empty(r.header.num_variables),
                            !.sink_constructor_args = FALSE,
                            !.header = r.header])

\* finish_literal with the literal put in front of the clause.
finish_literal_in_front(p) ==
    LET dimacs_code == parse_i32(p.buffer)
    IN  IF ~dimacs_code.ok THEN Failed(p, InvalidLiteral(p.buffer))
        ELSE Done([p EXCEPT !.clause = <<dimacs_code.value>> \o @,
                            !.state = "Clause"])

\* finish_literal, lines 307-318.
finish_literal(p) ==
    LET dimacs_code == parse_i32(p.buffer)
    IN  IF ~dimacs_code.ok THEN Failed(p, InvalidLiteral(p.buffer))
        ELSE IF dimacs_code.value = 0 THEN Failed(p, Panic("cannot be 0 here"))
        ELSE Done([p EXCEPT !.clause = Append(@, dimacs_code.value),
                            !.state = "Clause"])

\* The closure of parse_wcnf with every clause taken as soft.
on_clause_all_soft(p) ==
    IF p.on_clause = "parse_cnf"
    THEN [sink |-> add_hard_clause(p.sink, p.clause), err |-> NoError]
    ELSE IF p.clause = << >>
    THEN [sink |-> p.sink, err |-> Panic("index out of bounds")]
    ELSE IF p.clause[1] <= 0
    THEN [sink |-> p.sink, err |-> Panic("called unwrap on an Err value")]
    ELSE [sink |-> add_soft_clause(p.sink, p.clause[1], Tail(p.clause)),
          err |-> NoError]

\* The closures given to DimacsParser::new, lines 79-81 and 105-113.  An
\* index out of bounds and an unwrap on Err panic.
on_clause(p) ==
    IF p.on_clause = "parse_cnf"
    THEN [sink |-> add_hard_clause(p.sink, p.clause), err |-> NoError]
    ELSE IF p.clause = << >>
    THEN [sink |-> p.sink, err |-> Panic("index out of bounds")]
    ELSE IF p.clause[1] <= 0
    THEN [sink |-> p.sink, err |-> Panic("called unwrap on an Err value")]
    ELSE LET weight == p.clause[1]
         IN  IF weight = p.header.top_weight
             THEN [sink |-> add_hard_clause(p.sink, Tail(p.clause)),
                   err |-> NoError]
             ELSE [sink |-> add_soft_clause(p.sink, weight, Tail(p.clause)),
                   err |-> NoError]

\* finish_clause, lines 320-332.
finish_clause(p) ==
    IF ~p.sink.present THEN Failed(p, MissingHeader)
    ELSE LET counted == [p EXCEPT !.parsed_clauses = @ + 1]
             called == on_clause(counted)
         IN  IF called.err # NoError THEN Failed(counted, called.err)
             ELSE Done([counted EXCEPT !.sink = called.sink,
                                       !.clause = << >>])

\* The body of the for loop of parse_chunk, lines 179-257, for one byte.
parse_byte(p, b) ==
    CASE p.state = "StartLine" ->
            IF is_ascii_whitespace(b) THEN Done(p)
            ELSE IF b = "p"
            THEN Done([p EXCEPT !.state = "Header", !.buffer = <<"p">>])
            ELSE IF b = "c" THEN Done([p EXCEPT !.state = "Comment"])
            ELSE IF b \in NonZeroDigits THEN Done(start_literal(p, b, TRUE))
            ELSE IF b = "0" THEN finish_clause(p)
            ELSE IF b = "-" THEN Done(start_literal(p, "-", FALSE))
            ELSE Failed(p, UnexpectedCharacter(b))
      [] p.state = "Header" ->
            IF b = "\n"
            THEN LET r == init_formula(p)
                 IN  IF r.err # NoError THEN r
                     ELSE Done([r.parser EXCEPT !.state = "StartLine"])
            ELSE Done([p EXCEPT !.buffer = Append(@, b)])
      [] p.state = "Comment" ->
            IF b = "\n" THEN Done([p EXCEPT !.state = "StartLine"])
            ELSE Done(p)
      [] p.state = "Literal" ->
            IF is_ascii_whitespace(b) THEN finish_literal(p)
            ELSE IF b \in Digits THEN Done([p EXCEPT !.buffer = Append(@, b)])
            ELSE Failed(p, UnexpectedCharacter(b))
      [] p.state = "NegativeLiteral" ->
            IF b \in NonZeroDigits
            THEN Done([p EXCEPT !.buffer = Append(@, b), !.state = "Literal"])
            ELSE Failed(p, UnexpectedCharacter(b))
      [] p.state = "Clause" ->
            IF b = "0" THEN finish_clause(p)
            ELSE IF b = "\n" THEN Done([p EXCEPT !.state = "StartLine"])
            ELSE IF is_ascii_whitespace(b) THEN Done(p)
            ELSE IF b \in NonZeroDigits THEN Done(start_literal(p, b, TRUE))
            ELSE IF b = "-" THEN Done(start_literal(p, "-", FALSE))
            ELSE Failed(p, UnexpectedCharacter(b))

\* The for loop of parse_chunk, lines 178-258: the first error is returned
\* and the bytes after it are not looked at.
RECURSIVE for_byte(_, _)
for_byte(p, chunk) ==
    IF chunk = << >> THEN Done(p)
    ELSE LET r == parse_byte(p, Head(chunk))
         IN  IF r.err # NoError THEN r ELSE for_byte(r.parser, Tail(chunk))

\* parse_chunk starting every chunk with an empty buffer.
parse_chunk_fresh_buffer(p, chunk) == for_byte([p EXCEPT !.buffer = << >>], chunk)

\* parse_chunk, lines 177-261.
parse_chunk(p, chunk) == for_byte(p, chunk)

\* complete without the comparison of the clause counts.
complete_without_count(p) ==
    IF ~p.sink.present THEN MissingHeader
    ELSE IF p.clause # << >> THEN UnterminatedClause
    ELSE OkSink

\* complete, lines 274-290.
complete(p) ==
    IF ~p.sink.present THEN MissingHeader
    ELSE IF p.clause # << >> THEN UnterminatedClause
    ELSE IF p.header.num_clauses # p.parsed_clauses
    THEN IncorrectClauseCount(p.header.num_clauses, p.parsed_clauses)
    ELSE OkSink

\* No DIMACS file is being parsed.
NoParse ==
    /\ source = [opening |-> << >>, room |-> 0]
    /\ consumed = << >>
    /\ parser = DimacsParserNew("parse_cnf")
    /\ parsed = NoError
    /\ cut = {}

NoCall == [op |-> "none", task |-> 0, value |-> 0, bound |-> 0]
NoUfCall == [op |-> "none", x |-> 0, y |-> 0, result |-> 0]

(***************************************************************************)
(* Instances: a non-empty task array with positive durations and, for each *)
(* task, bounds lb <= ub of either sign.                                   *)
(***************************************************************************)
Bounds(n) ==
    {b \in [Ids(n) -> Times \X Times] : \A x \in Ids(n) : b[x][1] <= b[x][2]}

Instances(n) ==
    {[d |-> d, lb |-> [x \in Ids(n) |-> b[x][1]], ub |-> [x \in Ids(n) |-> b[x][2]]] :
        d \in [Ids(n) -> Durations], b \in Bounds(n)}

PropagatorInit(inst) ==
    /\ tasks = inst.d
    /\ lb = inst.lb
    /\ ub = inst.ub
    /\ input = [lb |-> inst.lb, ub |-> inst.ub]
    /\ entry = [lb |-> inst.lb, ub |-> inst.ub]
    /\ calls = 0
    /\ pc = "idle"
    /\ assignments = [lb |-> inst.lb, ub |-> inst.ub]
    /\ reason = {}
    /\ timeline = [t |-> << >>, c |-> << >>, m |-> << >>, e |-> -1,
                   s |-> << >>, fault |-> FALSE]
    /\ i_lst = << >>
    /\ i_ect = << >>
    /\ pos = 0
    /\ j = 0
    /\ blocking_task = None
    /\ postponed_tasks = << >>
    /\ propagations = << >>
    /\ pending = {}
    /\ status = "none"
    /\ returned_at = "none"
    /\ conflict = None
    /\ lastCall = NoCall

InitWith(inst) ==
    /\ PropagatorInit(inst)
    /\ scheduled = << >>
    /\ uf = << >>
    /\ uf_call = NoUfCall
    /\ domain = << >>
    /\ NoParse

Init == \E n \in 1 .. MaxTasks : \E inst \in Instances(n) : InitWith(inst)

(***************************************************************************)
(* propagate, lines 221-253: snapshot, reason, Timeline, the two orders.   *)
(* The solver calls propagate on the instance and calls it again after a   *)
(* call that returned Ok.                                                  *)
(***************************************************************************)
Propagate ==
    /\ \/ pc = "idle"
       \/ pc = "done" /\ status = "Ok"
    /\ calls < MaxCalls
    /\ LET a == forward_snapshot
       IN  /\ assignments' = a
           /\ reason' = naive_reason(a)
           /\ timeline' = TimelineNew(a)
           /\ i_lst' = forward_i_lst(a)
           /\ i_ect' = forward_i_ect(a)
    /\ entry' = [lb |-> lb, ub |-> ub]
    /\ calls' = calls + 1
    /\ pc' = "forward"
    /\ pos' = 0
    /\ j' = 0
    /\ blocking_task' = None
    /\ postponed_tasks' = << >>
    /\ propagations' = fresh_propagations
    /\ pending' = {}
    /\ status' = "none"
    /\ returned_at' = "none"
    /\ conflict' = None
    /\ lastCall' = NoCall
    /\ UNCHANGED <<tasks, lb, ub, input>>
    /\ UNCHANGED unit_vars

(***************************************************************************)
(* What a sweep iteration leaves in the state: the locals, and either the  *)
(* next iteration, the apply loop (after the last one) or the return of a  *)
(* blocking conflict.                                                      *)
(***************************************************************************)
AfterIteration(L, where, next) ==
    /\ timeline' = L.timeline
    /\ j' = L.j
    /\ blocking_task' = L.blocking_task
    /\ postponed_tasks' = L.postponed_tasks
    /\ propagations' = L.propagations
    /\ IF L.panic
       THEN /\ pc' = "done"
            /\ status' = "Panic"
            /\ returned_at' = "panic"
            /\ UNCHANGED <<pos, pending, conflict>>
       ELSE IF L.conflict # None
       THEN /\ pc' = "done"
            /\ status' = "Conflict"
            /\ returned_at' = where
            /\ conflict' = L.conflict
            /\ UNCHANGED <<pos, pending>>
       ELSE /\ pos' = pos + 1
            /\ IF pos + 1 = VLen(tasks)
               THEN pc' = next /\ pending' = DOMAIN L.propagations
               ELSE UNCHANGED <<pc, pending>>
            /\ UNCHANGED <<status, returned_at, conflict>>
    /\ UNCHANGED <<tasks, lb, ub, input, entry, calls, assignments, reason,
                   i_lst, i_ect, lastCall>>
    /\ UNCHANGED unit_vars

\* One iteration of `for i in i_ect.iter()`, lines 254-310.
ForwardStep ==
    /\ pc = "forward"
    /\ pos < VLen(tasks)
    /\ AfterIteration(
           forward_iteration(Locals, i_lst, assignments, reason, i_ect[pos]),
           "forward_blocking", "apply_lb")

\* One iteration of `for (local_id, (ect, reason)) in propagations.iter()`,
\* lines 311-323.  The map is a HashMap: any key not visited yet may come next.
ApplyLowerBound ==
    /\ pc = "apply_lb"
    /\ \E local_id \in pending :
          LET ect == propagations[local_id].bound
              x == apply_lower_bound([lb |-> lb, ub |-> ub], local_id, ect)
          IN  IF skip_lower(ect, get_est(local_id, assignments))
              THEN /\ pending' = pending \ {local_id}
                   /\ UNCHANGED <<lb, ub, pc, status, returned_at, conflict,
                                  lastCall>>
              ELSE /\ lastCall' = [op |-> "set_lower_bound", task |-> local_id,
                                   value |-> ect, bound |-> lb[local_id]]
                   /\ lb' = x.lb
                   /\ ub' = x.ub
                   /\ IF x.ok
                      THEN /\ pending' = pending \ {local_id}
                           /\ UNCHANGED <<pc, status, returned_at, conflict>>
                      ELSE /\ pc' = "done"
                           /\ status' = "Conflict"
                           /\ returned_at' = "lb_rejected"
                           /\ conflict' = Some(propagations[local_id].reason)
                           /\ UNCHANGED pending
    /\ UNCHANGED <<tasks, input, entry, calls, assignments, reason, timeline,
                   i_lst, i_ect, pos, j, blocking_task, postponed_tasks,
                   propagations>>
    /\ UNCHANGED unit_vars

\* Line 324 and propagate_upper_bound, lines 49-80.
PropagateUpperBound ==
    /\ pc = "apply_lb"
    /\ pending = {}
    /\ LET a == reverse_snapshot
       IN  /\ assignments' = a
           /\ reason' = naive_reason(a)
           /\ timeline' = RevTimelineNew(a)
           /\ i_lst' = reverse_i_lst(a)
           /\ i_ect' = reverse_i_ect(a)
    /\ pc' = "reverse"
    /\ pos' = 0
    /\ j' = 0
    /\ blocking_task' = None
    /\ postponed_tasks' = << >>
    /\ propagations' = fresh_upper_propagations
    /\ UNCHANGED <<tasks, lb, ub, input, entry, calls, pending, status,
                   returned_at, conflict, lastCall>>
    /\ UNCHANGED unit_vars

\* One iteration of `for i in i_lst.iter()`, lines 81-136.
ReverseStep ==
    /\ pc = "reverse"
    /\ pos < VLen(tasks)
    /\ AfterIteration(
           reverse_iteration(Locals, i_ect, assignments, reason, i_lst[pos]),
           "reverse_blocking", "apply_ub")

\* One iteration of `for (local_id, (lst, reason)) in propagations.iter()`,
\* lines 137-149.
ApplyUpperBound ==
    /\ pc = "apply_ub"
    /\ \E local_id \in pending :
          LET lst == propagations[local_id].bound
              x == apply_upper_bound([lb |-> lb, ub |-> ub], local_id, lst)
          IN  IF skip_upper(lst, get_lst(local_id, assignments))
              THEN /\ pending' = pending \ {local_id}
                   /\ UNCHANGED <<lb, ub, pc, status, returned_at, conflict,
                                  lastCall>>
              ELSE /\ lastCall' = [op |-> "set_upper_bound", task |-> local_id,
                                   value |-> lst, bound |-> ub[local_id]]
                   /\ lb' = x.lb
                   /\ ub' = x.ub
                   /\ IF x.ok
                      THEN /\ pending' = pending \ {local_id}
                           /\ UNCHANGED <<pc, status, returned_at, conflict>>
                      ELSE /\ pc' = "done"
                           /\ status' = "Conflict"
                           /\ returned_at' = "ub_rejected"
                           /\ conflict' = Some(propagations[local_id].reason)
                           /\ UNCHANGED pending
    /\ UNCHANGED <<tasks, input, entry, calls, assignments, reason, timeline,
                   i_lst, i_ect, pos, j, blocking_task, postponed_tasks,
                   propagations>>
    /\ UNCHANGED unit_vars

\* Line 150: Ok(()).
ReturnOk ==
    /\ pc = "apply_ub"
    /\ pending = {}
    /\ pc' = "done"
    /\ status' = "Ok"
    /\ returned_at' = "ok"
    /\ UNCHANGED <<tasks, lb, ub, input, entry, calls, assignments, reason,
                   timeline, i_lst, i_ect, pos, j, blocking_task,
                   postponed_tasks, propagations, pending, conflict, lastCall>>
    /\ UNCHANGED unit_vars

Next ==
    \/ Propagate
    \/ ForwardStep
    \/ ApplyLowerBound
    \/ PropagateUpperBound
    \/ ReverseStep
    \/ ApplyUpperBound
    \/ ReturnOk

Spec == Init /\ [][Next]_vars

(***************************************************************************)
(* propagate is straight-line code run by the thread that called it: while *)
(* a call has not returned, the thread takes the call's next step, which   *)
(* moves its position (pc, the index of the sweep's for loop, or the keys  *)
(* the apply loop has left).  Whether the solver calls propagate again is  *)
(* left open.                                                              *)
(***************************************************************************)
Positions == {"idle", "forward", "apply_lb", "reverse", "apply_ub", "done"}

CallStep ==
    /\ pc \notin {"idle", "done"}
    /\ pc' \in Positions
    /\ pos' \in 0 .. VLen(tasks)
    /\ pending' \in SUBSET DOMAIN tasks

FairSpec == Spec /\ WF_<<pc, pos, pending>>(CallStep)

propagator_vars ==
    <<tasks, lb, ub, input, entry, calls, pc, assignments, reason, timeline,
      i_lst, i_ect, pos, j, blocking_task, postponed_tasks, propagations,
      pending, status, returned_at, conflict, lastCall>>

propagator_vars_but_timeline ==
    <<tasks, lb, ub, input, entry, calls, pc, assignments, reason,
      i_lst, i_ect, pos, j, blocking_task, postponed_tasks, propagations,
      pending, status, returned_at, conflict, lastCall>>

(***************************************************************************)
(* UnionFind on its own: UnionFind::new(n), then find and union calls with *)
(* any arguments inside 0..n-1, in any order.                              *)
(***************************************************************************)
OneTask ==
    [d |-> [x \in Ids(1) |-> 1], lb |-> [x \in Ids(1) |-> 0],
     ub |-> [x \in Ids(1) |-> 0]]

UnionFindInit ==
    /\ PropagatorInit(OneTask)
    /\ scheduled = << >>
    /\ \E n \in 1 .. MaxSlices : uf = UnionFindNew(n)
    /\ uf_call = NoUfCall
    /\ domain = << >>
    /\ NoParse

\* find(x), lines 17-22: returns the root and leaves the compressed path.
FindCall ==
    \E x \in DOMAIN uf :
        LET r == find(uf, x)
        IN  /\ uf' = r.parent
            /\ uf_call' = [op |-> "find", x |-> x, y |-> x, result |-> r.root]
            /\ UNCHANGED <<propagator_vars, scheduled, domain, dimacs_vars>>

\* union(x, y), lines 24-32: the result is 1 for true and 0 for false.
UnionCall ==
    \E x \in DOMAIN uf, y \in DOMAIN uf :
        /\ uf' = union(uf, x, y)
        /\ uf_call' = [op |-> "union", x |-> x, y |-> y,
                       result |-> IF find(uf, x).root = find(uf, y).root
                                  THEN 0 ELSE 1]
        /\ UNCHANGED <<propagator_vars, scheduled, domain, dimacs_vars>>

UnionFindNext ==
    \/ FindCall
    \/ UnionCall

UnionFindSpec == UnionFindInit /\ [][UnionFindNext]_vars

(***************************************************************************)
(* The instances of the unit tests and of the worked examples: the four    *)
(* tasks of test_prop and test_rev, the four of test_prop_example, the     *)
(* three of test_constructor, and three tasks whose ESTs 3, 5, 9 give the  *)
(* time points [3, 5, 9, sentinel] with capacities [2, 4, K].              *)
(***************************************************************************)
Vec(seq) == [k \in Ids(Len(seq)) |-> seq[k + 1]]

Instance(d, lo, hi) == [d |-> Vec(d), lb |-> Vec(lo), ub |-> Vec(hi)]

test_prop == Instance(<<4, 9, 7, 6>>, <<0, 2, 9, 12>>, <<15, 13, 23, 14>>)
test_prop_example == Instance(<<2, 5, 5, 2>>, <<0, 3, 7, 4>>, <<4, 5, 10, 18>>)
test_constructor == Instance(<<5, 6, 2>>, <<4, 1, 5>>, <<10, 4, 6>>)
three_slices == Instance(<<3, 1, 1>>, <<3, 5, 9>>, <<3, 5, 9>>)

Examples == {test_prop, test_prop_example, test_constructor, three_slices}

IsInstance(inst) ==
    /\ tasks = inst.d
    /\ input = [lb |-> inst.lb, ub |-> inst.ub]

(***************************************************************************)
(* propagate on the instances of the unit tests and worked examples.       *)
(***************************************************************************)
ExamplesInit == \E inst \in Examples : InitWith(inst)

ExamplesSpec == ExamplesInit /\ [][Next]_vars

(***************************************************************************)
(* A Timeline or a RevTimeline on its own: built from the bounds of an     *)
(* instance, then schedule_task called for tasks of the instance in any    *)
(* order, each task at most once (the sentinel slice is sized for the sum  *)
(* of the durations).                                                      *)
(***************************************************************************)
\* Instances of one or two tasks that lie before time 0: every bound is
\* -BeforeZero or -BeforeZero + 1.
BeforeZero == 3

EarlyTimes == (0 - BeforeZero) .. (1 - BeforeZero)

EarlyInstances ==
    UNION {{[d |-> d,
             lb |-> [x \in Ids(n) |-> b[x][1]],
             ub |-> [x \in Ids(n) |-> b[x][2]]] :
               d \in [Ids(n) -> Durations],
               b \in {c \in [Ids(n) -> EarlyTimes \X EarlyTimes] :
                         \A x \in Ids(n) : c[x][1] <= c[x][2]}} :
           n \in 1 .. 2}

TimelineInit ==
    \/ Init
    \/ \E inst \in Examples : InitWith(inst)
    \/ \E inst \in EarlyInstances : InitWith(inst)

Range(seq) == {seq[k] : k \in DOMAIN seq}

\* Timeline::new(tasks, assignments), lines 20-55.
NewTimeline ==
    /\ pc = "idle"
    /\ pc' = "Timeline"
    /\ assignments' = [lb |-> lb, ub |-> ub]
    /\ timeline' = TimelineNew([lb |-> lb, ub |-> ub])
    /\ UNCHANGED <<tasks, lb, ub, input, entry, calls, reason, i_lst, i_ect,
                   pos, j, blocking_task, postponed_tasks, propagations,
                   pending, status, returned_at, conflict, lastCall>>
    /\ UNCHANGED unit_vars

\* RevTimeline::new(tasks, assignments), lines 118-156.
NewRevTimeline ==
    /\ pc = "idle"
    /\ pc' = "RevTimeline"
    /\ assignments' = [lb |-> lb, ub |-> ub]
    /\ timeline' = RevTimelineNew([lb |-> lb, ub |-> ub])
    /\ UNCHANGED <<tasks, lb, ub, input, entry, calls, reason, i_lst, i_ect,
                   pos, j, blocking_task, postponed_tasks, propagations,
                   pending, status, returned_at, conflict, lastCall>>
    /\ UNCHANGED unit_vars

Scheduling ==
    /\ ~timeline.fault
    /\ \E task \in DOMAIN tasks \ Range(scheduled) :
           /\ timeline' = schedule_task(timeline, task)
           /\ scheduled' = Append(scheduled, task)
    /\ UNCHANGED <<propagator_vars_but_timeline, uf, uf_call, domain, dimacs_vars>>

\* Timeline::schedule_task(task), lines 57-74.
ScheduleTask ==
    /\ pc = "Timeline"
    /\ Scheduling

\* RevTimeline::schedule_task(task), lines 158-175.
RevScheduleTask ==
    /\ pc = "RevTimeline"
    /\ Scheduling

TimelineNext ==
    \/ NewTimeline
    \/ NewRevTimeline
    \/ ScheduleTask
    \/ RevScheduleTask

TimelineSpec == TimelineInit /\ [][TimelineNext]_vars

(***************************************************************************)
(* A whole sweep on a snapshot a: the for loop run to its end, or to the   *)
(* return of a blocking conflict.                                          *)
(***************************************************************************)
RECURSIVE forward_loop(_, _, _, _, _, _)
forward_loop(L, lst, ect, a, r, p) ==
    IF p >= VLen(ect) \/ L.conflict # None \/ L.panic THEN L
    ELSE forward_loop(forward_iteration(L, lst, a, r, ect[p]),
                      lst, ect, a, r, p + 1)

forward_sweep(a) ==
    forward_loop(sweep_start(TimelineNew(a)), forward_i_lst(a),
                 forward_i_ect(a), a, naive_reason(a), 0)

RECURSIVE reverse_loop(_, _, _, _, _, _)
reverse_loop(L, lst, ect, a, r, p) ==
    IF p >= VLen(lst) \/ L.conflict # None \/ L.panic THEN L
    ELSE reverse_loop(reverse_iteration(L, ect, a, r, lst[p]),
                      lst, ect, a, r, p + 1)

reverse_sweep(a) ==
    reverse_loop(sweep_start(RevTimelineNew(a)), reverse_i_lst(a),
                 reverse_i_ect(a), a, naive_reason(a), 0)

(***************************************************************************)
(* propagate with both maps visited in the order of the local ids: one of  *)
(* the orders a HashMap may iterate in.                                    *)
(***************************************************************************)
Outcome(s, where, c, store) ==
    [status |-> s, returned_at |-> where, conflict |-> c,
     lb |-> store.lb, ub |-> store.ub]

RECURSIVE lower_in_order(_, _, _, _)
lower_in_order(store, P, a, x) ==
    IF x >= VLen(tasks) THEN [ok |-> TRUE, lb |-> store.lb, ub |-> store.ub]
    ELSE IF x \notin DOMAIN P \/ skip_lower(P[x].bound, get_est(x, a))
    THEN lower_in_order(store, P, a, x + 1)
    ELSE LET r == apply_lower_bound(store, x, P[x].bound)
         IN  IF r.ok THEN lower_in_order(r, P, a, x + 1)
             ELSE [r EXCEPT !.ok = FALSE] @@ [conflict |-> Some(P[x].reason)]

RECURSIVE upper_in_order(_, _, _, _)
upper_in_order(store, P, a, x) ==
    IF x >= VLen(tasks) THEN [ok |-> TRUE, lb |-> store.lb, ub |-> store.ub]
    ELSE IF x \notin DOMAIN P \/ skip_upper(P[x].bound, get_lst(x, a))
    THEN upper_in_order(store, P, a, x + 1)
    ELSE LET r == apply_upper_bound(store, x, P[x].bound)
         IN  IF r.ok THEN upper_in_order(r, P, a, x + 1)
             ELSE [r EXCEPT !.ok = FALSE] @@ [conflict |-> Some(P[x].reason)]

propagate_in_order(b) ==
    LET F == forward_sweep(b)
        A == lower_in_order(b, F.propagations, b, 0)
        R == reverse_sweep(A)
        B == upper_in_order(A, R.propagations, A, 0)
    IN  IF F.panic THEN Outcome("Panic", "panic", None, b)
        ELSE IF F.conflict # None
        THEN Outcome("Conflict", "forward_blocking", F.conflict, b)
        ELSE IF ~A.ok THEN Outcome("Conflict", "lb_rejected", A.conflict, A)
        ELSE IF R.panic THEN Outcome("Panic", "panic", None, A)
        ELSE IF R.conflict # None
        THEN Outcome("Conflict", "reverse_blocking", R.conflict, A)
        ELSE IF ~B.ok THEN Outcome("Conflict", "ub_rejected", B.conflict, B)
        ELSE Outcome("Ok", "ok", None, B)

(***************************************************************************)
(* Feasible schedules of a bounds snapshot: a start time for every task,   *)
(* inside its bounds, no two tasks overlapping.                            *)
(***************************************************************************)
NonOverlapping(st) ==
    \A x, y \in DOMAIN tasks :
        x # y => (st[x] + tasks[x] <= st[y] \/ st[y] + tasks[y] <= st[x])

Schedules(b) ==
    {st \in [DOMAIN tasks -> Times] :
        /\ \A x \in DOMAIN tasks : b.lb[x] <= st[x] /\ st[x] <= b.ub[x]
        /\ NonOverlapping(st)}

Within(st) == \A x \in DOMAIN tasks : lb[x] <= st[x] /\ st[x] <= ub[x]

NonNegative(b) == \A x \in DOMAIN tasks : b.lb[x] >= 0

Returned(s) == pc = "done" /\ status = s

\* Earliest completion time of a non-empty set of tasks on the bounds b.
EctOf(P, b) ==
    SetMax({SetMin({b.lb[x] : x \in W}) + SumOver(tasks, W) :
               W \in (SUBSET P) \ {{}}})

Preceding(i, b) ==
    {k \in DOMAIN tasks : k # i /\ b.ub[k] < b.lb[i] + tasks[i]}

(***************************************************************************)
(* C1.  Soundness: when propagate returns Ok, every feasible schedule of   *)
(* the entry bounds (any sign) still lies inside the bounds.               *)
(***************************************************************************)
C1_Soundness ==
    Returned("Ok") => \A st \in Schedules(entry) : Within(st)

(***************************************************************************)
(* C2.  No false conflict: propagate does not return Conflict when the     *)
(* entry bounds have a feasible schedule.                                  *)
(***************************************************************************)
C2_NoFalseConflict ==
    Returned("Conflict") => Schedules(entry) = {}

(***************************************************************************)
(* C3.  Detectable-precedence rule: after Ok, the lower bound of every     *)
(* task i is at least the earliest completion time of the set              *)
(* {k # i : LST(k) < ECT(i)} taken on the entry bounds.                    *)
(***************************************************************************)
C3_DetectablePrecedences ==
    Returned("Ok") =>
        \A i \in DOMAIN tasks :
            Preceding(i, entry) # {} => lb[i] >= EctOf(Preceding(i, entry), entry)

(***************************************************************************)
(* C4.  Bound monotonicity: during and after a propagate call no lower     *)
(* bound is below and no upper bound above its entry value, and every      *)
(* set_lower_bound (set_upper_bound) call carries a value strictly greater *)
(* (smaller) than the task's EST (LST).                                    *)
(***************************************************************************)
C4_BoundMonotonicity ==
    /\ \A x \in DOMAIN tasks : entry.lb[x] <= lb[x] /\ ub[x] <= entry.ub[x]
    /\ lastCall.op = "set_lower_bound" =>
           /\ lastCall.value > lastCall.bound
           /\ lastCall.value > entry.lb[lastCall.task]
    /\ lastCall.op = "set_upper_bound" =>
           /\ lastCall.value < lastCall.bound
           /\ lastCall.value < entry.ub[lastCall.task]

\* A call that returned Ok after raising a lower bound and lowering an upper one.
C4_Witness ==
    /\ Returned("Ok")
    /\ lastCall.op = "set_upper_bound"
    /\ \E x \in DOMAIN tasks : lb[x] > entry.lb[x]
    /\ \E x \in DOMAIN tasks : ub[x] < entry.ub[x]

Store == [lb |-> lb, ub |-> ub]

\* The running call is in, or has returned from, the reverse sweep.
InReverse ==
    \/ pc \in {"reverse", "apply_ub"}
    \/ pc = "done" /\ returned_at \in {"reverse_blocking", "ub_rejected", "ok"}

LstOf(S, b) ==
    SetMin({SetMax({b.ub[x] + tasks[x] : x \in W}) - SumOver(tasks, W) :
               W \in (SUBSET S) \ {{}}})

Following(i, b) ==
    {k \in DOMAIN tasks : k # i /\ b.lb[k] + tasks[k] > b.ub[i]}

LowerRule(b, after) ==
    \A i \in DOMAIN tasks :
        Preceding(i, b) # {} => after.lb[i] >= EctOf(Preceding(i, b), b)

UpperRule(b, after) ==
    \A i \in DOMAIN tasks :
        Following(i, b) # {} =>
            after.ub[i] <= LstOf(Following(i, b), b) - tasks[i]

C7_WitnessFurtherPush ==
    /\ calls = 2
    /\ Returned("Ok")
    /\ NonNegative(input)
    /\ Schedules(input) # {}
    /\ Store # entry

C9_SingleTaskPassThrough ==
    (VLen(tasks) = 1 /\ pc = "done") => status = "Ok" /\ Store = entry

(***************************************************************************)
(* C10.  Mirror symmetry: the upper-bound pushes of the reverse sweep on   *)
(* an instance are the mirror images (new_ub = -new_lb' - d) of the        *)
(* lower-bound pushes of the forward sweep on the mirrored instance        *)
(* ([lb, ub] replaced by [-ub - d, -lb - d]), and the two sweeps report a  *)
(* Conflict on the same instances.  A push is a recorded bound that        *)
(* tightens the task's bound.                                              *)
(***************************************************************************)
Mirror(a) ==
    [lb |-> [x \in DOMAIN tasks |-> 0 - a.ub[x] - tasks[x]],
     ub |-> [x \in DOMAIN tasks |-> 0 - a.lb[x] - tasks[x]]]

LowerPushes(P, a) ==
    {<<x, P[x].bound>> : x \in {y \in DOMAIN P : P[y].bound > get_est(y, a)}}

UpperPushes(P, a) ==
    {<<x, P[x].bound>> : x \in {y \in DOMAIN P : P[y].bound < get_lst(y, a)}}

MirrorPushes(S) == {<<p[1], 0 - p[2] - tasks[p[1]]>> : p \in S}

C10_MirrorSymmetry ==
    /\ (pc = "apply_ub" /\ pending = DOMAIN propagations) =>
           LET F == forward_sweep(Mirror(assignments))
           IN  /\ F.conflict = None
               /\ UpperPushes(propagations, assignments) =
                      MirrorPushes(LowerPushes(F.propagations, Mirror(assignments)))
    /\ (pc = "done" /\ returned_at = "reverse_blocking") =>
           forward_sweep(Mirror(assignments)).conflict # None

(***************************************************************************)
(* C16.  UnionFind contract: find is idempotent (find(find(i)) = find(i)); *)
(* a find call changes no element's root, so never which elements share a  *)
(* root; elements that share a root keep sharing one; after union(i, j)    *)
(* find(i) = find(j), and the root of the merged set is the root j had     *)
(* before the call.                                                        *)
(***************************************************************************)
Root(parent, x) == find(parent, x).root

FindIdempotent(parent) ==
    \A x \in DOMAIN parent :
        LET r == find(parent, x)
        IN  find(r.parent, r.root).root = r.root

C16_UnionFindContract ==
    [][/\ FindIdempotent(uf) /\ FindIdempotent(uf')
       /\ \A x, y \in DOMAIN uf :
              Root(uf, x) = Root(uf, y) => Root(uf', x) = Root(uf', y)
       /\ uf_call'.op = "find" =>
              /\ uf_call'.result = Root(uf, uf_call'.x)
              /\ \A x \in DOMAIN uf : Root(uf', x) = Root(uf, x)
       /\ uf_call'.op = "union" =>
              /\ Root(uf', uf_call'.x) = Root(uf', uf_call'.y)
              /\ Root(uf', uf_call'.y) = Root(uf, uf_call'.y)
              /\ \A x \in DOMAIN uf :
                     Root(uf', x) = IF Root(uf, x) = Root(uf, uf_call'.x)
                                    THEN Root(uf, uf_call'.y)
                                    ELSE Root(uf, x)]_vars

\* A find that walked and compressed a path of two links, after unions.
C16_Witness ==
    /\ uf_call.op = "find"
    /\ uf_call.result # uf_call.x
    /\ uf[uf_call.x] = uf_call.result
    /\ \E z \in DOMAIN uf :
           z # uf_call.x /\ z # uf_call.result /\ uf[z] = uf_call.result
    /\ \E z \in DOMAIN uf : uf[z] # z /\ uf[uf[z]] # uf[z]

(***************************************************************************)
(* debug_propagate_from_scratch, lines 206-219, on a bounds snapshot a:    *)
(* the first task in the order of self.tasks with ECT > LCT gives the      *)
(* conflict, whose reason is the one predicate [start >= lst - 1].         *)
(***************************************************************************)
\* The loop comparing ECT with LST where the code compares with LCT.
RECURSIVE debug_loop_against_lst(_, _)
debug_loop_against_lst(a, x) ==
    IF x >= VLen(tasks) THEN [status |-> "Ok", conflict |-> None]
    ELSE LET ect == get_ect(x, a)
             lst == get_lst(x, a)
         IN  IF ect > get_lst(x, a)
             THEN [status |-> "Conflict", conflict |-> Some({<<x, ">=", lst - 1>>})]
             ELSE debug_loop_against_lst(a, x + 1)

\* The loop with the comparison turned round.
RECURSIVE debug_loop_turned_round(_, _)
debug_loop_turned_round(a, x) ==
    IF x >= VLen(tasks) THEN [status |-> "Ok", conflict |-> None]
    ELSE LET ect == get_ect(x, a)
             lst == get_lst(x, a)
         IN  IF ect < get_lct(x, a)
             THEN [status |-> "Conflict", conflict |-> Some({<<x, ">=", lst - 1>>})]
             ELSE debug_loop_turned_round(a, x + 1)

RECURSIVE debug_loop(_, _)
debug_loop(a, x) ==
    IF x >= VLen(tasks) THEN [status |-> "Ok", conflict |-> None]
    ELSE LET ect == get_ect(x, a)
             lst == get_lst(x, a)
         IN  IF ect > get_lct(x, a)
             THEN [status |-> "Conflict", conflict |-> Some({<<x, ">=", lst - 1>>})]
             ELSE debug_loop(a, x + 1)

debug_propagate_from_scratch(a) == debug_loop(a, 0)

(***************************************************************************)
(* debug_propagate_from_scratch on its own.  It is handed whatever the     *)
(* solver's store holds, so the bounds of a task are any pair (lb, ub), an *)
(* empty domain lb > ub included.  TestSolver::remove takes a value out of *)
(* a domain; the bounds are the least and the greatest value left, and a   *)
(* removal that would leave no value is refused.                           *)
(***************************************************************************)
AnyBounds(n) == [Ids(n) -> Times \X Times]

AnyInstances(n) ==
    {[d |-> d, lb |-> [x \in Ids(n) |-> b[x][1]], ub |-> [x \in Ids(n) |-> b[x][2]]] :
        d \in [Ids(n) -> Durations], b \in AnyBounds(n)}

test_debug_propagate_fail == Instance(<<2>>, <<3>>, <<8>>)

DebugInitWith(inst) ==
    /\ PropagatorInit(inst)
    /\ scheduled = << >>
    /\ uf = << >>
    /\ uf_call = NoUfCall
    /\ domain = [x \in DOMAIN inst.d |-> inst.lb[x] .. inst.ub[x]]
    /\ NoParse

DebugInit ==
    \/ \E n \in 1 .. MaxTasks : \E inst \in AnyInstances(n) : DebugInitWith(inst)
    \/ DebugInitWith(test_debug_propagate_fail)

Removed(x) == (input.lb[x] .. input.ub[x]) \ domain[x]

RECURSIVE Removals(_)
Removals(S) ==
    IF S = {} THEN 0
    ELSE LET x == CHOOSE y \in S : TRUE
         IN  Cardinality(Removed(x)) + Removals(S \ {x})

\* solver.remove(x, v).
RemoveValue ==
    /\ pc = "idle"
    /\ Removals(DOMAIN tasks) < MaxRemovals
    /\ \E x \in DOMAIN tasks : \E v \in domain[x] :
          LET left == domain[x] \ {v}
          IN  /\ left # {}
              /\ domain' = [domain EXCEPT ![x] = left]
              /\ lb' = [lb EXCEPT ![x] = SetMin(left)]
              /\ ub' = [ub EXCEPT ![x] = SetMax(left)]
    /\ UNCHANGED <<tasks, input, entry, calls, pc, assignments, reason, timeline,
                   i_lst, i_ect, pos, j, blocking_task, postponed_tasks,
                   propagations, pending, status, returned_at, conflict,
                   lastCall, scheduled, uf, uf_call, dimacs_vars>>

\* debug_propagate_from_scratch(context), lines 206-219.
DebugPropagateFromScratch ==
    /\ pc = "idle"
    /\ LET r == debug_propagate_from_scratch([lb |-> lb, ub |-> ub])
       IN  /\ status' = r.status
           /\ conflict' = r.conflict
    /\ assignments' = [lb |-> lb, ub |-> ub]
    /\ pc' = "done"
    /\ returned_at' = "debug"
    /\ UNCHANGED <<tasks, lb, ub, input, entry, calls, reason, timeline,
                   i_lst, i_ect, pos, j, blocking_task, postponed_tasks,
                   propagations, pending, lastCall>>
    /\ UNCHANGED unit_vars

DebugNext ==
    \/ RemoveValue
    \/ DebugPropagateFromScratch

DebugSpec == DebugInit /\ [][DebugNext]_vars

(***************************************************************************)
(* Parsing a DIMACS file: parse_cnf and parse_wcnf hand the file to the    *)
(* parser chunk by chunk, as the reader fills its buffer, and call         *)
(* complete at the end of the file.  A file opens with nothing, with a     *)
(* header line or as one of the tests' sources; after a header any bytes   *)
(* of BodyBytes follow, MaxBody of them at most, and a chunk has MaxChunk  *)
(* bytes at most.  Other files hold the same header line twice, with       *)
(* nothing, a clause or a literal on a line of its own between the two.    *)
(* The file may end at any byte.                                           *)
(***************************************************************************)
MaxBody == 5
MaxChunk == 2
MaxClauses == 2
NumVariables == 2
TopWeight == 2

BodyBytes == {"0", "1", "2", "-", " ", "\n", "c"}

Decimal(n) == <<CHOOSE b \in Digits : DigitValue(b) = n>>

cnf_header(num_variables, num_clauses) ==
    <<"p", " ", "c", "n", "f", " ">> \o Decimal(num_variables) \o <<" ">>
        \o Decimal(num_clauses) \o <<"\n">>

wcnf_header(num_variables, num_clauses, top_weight) ==
    <<"p", " ", "w", "c", "n", "f", " ">> \o Decimal(num_variables) \o <<" ">>
        \o Decimal(num_clauses) \o <<" ">> \o Decimal(top_weight) \o <<"\n">>

Headers ==
    {cnf_header(NumVariables, n) : n \in 0 .. MaxClauses}
        \cup {wcnf_header(NumVariables, n, TopWeight) : n \in 0 .. MaxClauses}

\* tests::basic_instance_is_read, the source.
basic_instance_is_read ==
    <<"p", " ", "c", "n", "f", " ", "2", " ", "2", "\n", "1", " ", "-",
      "2", " ", "0", "\n", "-", "1", " ", "2", " ", "0">>

\* tests::comments_are_ignored, the source.
comments_are_ignored ==
    <<"c", " ", "t", "h", "i", "s", " ", "i", "s", "\n", "c", " ", "a",
      " ", "c", "o", "m", "m", "e", "n", "t", "\n", "p", " ", "c", "n",
      "f", " ", "2", " ", "2", "\n", "1", " ", "-", "2", " ", "0", "\n",
      "c", " ", "w", "i", "t", "h", "i", "n", " ", "t", "h", "e", " ", "f",
      "i", "l", "e", "\n", "-", "1", " ", "2", " ", "0", "\n">>

\* tests::clauses_on_same_line_are_separated, the source.
clauses_on_same_line_are_separated ==
    <<"p", " ", "c", "n", "f", " ", "2", " ", "2", "\n", "1", " ", "-",
      "2", " ", "0", " ", "-", "1", " ", "2", " ", "0">>

\* tests::new_lines_do_not_terminate_clause, the source.
new_lines_do_not_terminate_clause ==
    <<"p", " ", "c", "n", "f", " ", "2", " ", "2", "\n", "1", "\n", "-",
      "2", " ", "0", " ", "-", "1", " ", "2", "\n", " ", "0">>

\* tests::weighted_maxsat_is_parsed_correctly, the source.
weighted_maxsat_is_parsed_correctly ==
    <<"\n", " ", " ", " ", " ", " ", " ", " ", " ", " ", " ", " ", " ",
      "p", " ", "w", "c", "n", "f", " ", "2", " ", "4", " ", "3", "\n",
      " ", " ", " ", " ", " ", " ", " ", " ", " ", " ", " ", " ", "3", " ",
      " ", "1", " ", "-", "2", " ", "0", "\n", " ", " ", " ", " ", " ",
      " ", " ", " ", " ", " ", " ", " ", "3", " ", "-", "1", " ", " ", "2",
      " ", "0", "\n", " ", " ", " ", " ", " ", " ", " ", " ", " ", " ",
      " ", " ", "2", " ", "1", " ", "0", "\n", " ", " ", " ", " ", " ",
      " ", " ", " ", " ", " ", " ", " ", "1", " ", "2", " ", "0", "\n",
      " ", " ", " ", " ", " ", " ", " ", " ">>

\* tests::incomplete_clause_causes_error, the source.
incomplete_clause_causes_error ==
    <<"p", " ", "c", "n", "f", " ", "2", " ", "1", "\n", "1", " ", "-",
      "2">>

\* tests::incorrect_reported_clause_count, the source.
incorrect_reported_clause_count ==
    <<"p", " ", "c", "n", "f", " ", "2", " ", "2", "\n", "1", " ", "-",
      "2", " ", "0">>

BetweenHeaders ==
    {<< >>, <<"1", " ", "0", "\n">>, <<"1", "\n">>}

TwoHeaders == {h \o b \o h : h \in Headers, b \in BetweenHeaders}

Tests ==
    {[f |-> "parse_cnf", source |-> basic_instance_is_read],
     [f |-> "parse_cnf", source |-> comments_are_ignored],
     [f |-> "parse_cnf", source |-> clauses_on_same_line_are_separated],
     [f |-> "parse_cnf", source |-> new_lines_do_not_terminate_clause],
     [f |-> "parse_wcnf", source |-> weighted_maxsat_is_parsed_correctly],
     [f |-> "parse_cnf", source |-> incomplete_clause_causes_error],
     [f |-> "parse_cnf", source |-> incorrect_reported_clause_count]}

DimacsInit ==
    /\ PropagatorInit(OneTask)
    /\ scheduled = << >>
    /\ uf = << >>
    /\ uf_call = NoUfCall
    /\ domain = << >>
    /\ \/ \E f \in ParseFunctions : \E opening \in {<< >>} \cup Headers :
             /\ source = [opening |-> opening, room |-> MaxBody]
             /\ parser = DimacsParserNew(f)
       \/ \E f \in ParseFunctions : \E opening \in TwoHeaders :
             /\ source = [opening |-> opening, room |-> 0]
             /\ parser = DimacsParserNew(f)
       \/ \E t \in Tests :
             /\ source = [opening |-> t.source, room |-> 0]
             /\ parser = DimacsParserNew(t.f)
    /\ consumed = << >>
    /\ parsed = NoError
    /\ cut = {}

\* The bytes of the opening the reader has not handed over yet, and the
\* number of bytes that may still follow the opening.
Unread == SubSeq(source.opening, Len(consumed) + 1, Len(source.opening))
Room == source.room - Max(0, Len(consumed) - Len(source.opening))

\* What reader.fill_buf() may return when the file has not ended.
NextChunks ==
    IF Unread # << >>
    THEN {SubSeq(Unread, 1, n) : n \in 1 .. Min(MaxChunk, Len(Unread))}
    ELSE UNION {[1 .. n -> BodyBytes] : n \in 1 .. Min(MaxChunk, Room)}

\* The chunk starts inside a header, inside a comment or inside a literal.
Inside(p, chunk) ==
    IF p.state \in {"Header", "Comment"} THEN {p.state}
    ELSE IF p.state \in {"Literal", "NegativeLiteral"} /\ Head(chunk) \in Digits
    THEN {"Literal"}
    ELSE {}

\* One turn of the loop of parse_cnf (lines 83-96) or parse_wcnf (lines
\* 115-129) with data to parse: an error of parse_chunk is returned.
ParseChunk ==
    /\ parsed = NoError
    /\ \E chunk \in NextChunks :
           LET r == parse_chunk(parser, chunk)
           IN  /\ parser' = r.parser
               /\ parsed' = r.err
               /\ consumed' = consumed \o chunk
               /\ cut' = cut \cup Inside(parser, chunk)
    /\ UNCHANGED <<propagator_vars, scheduled, uf, uf_call, domain, source>>

\* The turn of the loop that finds the file at its end, lines 87-89 and
\* 119-122.
Complete ==
    /\ parsed = NoError
    /\ parsed' = complete(parser)
    /\ UNCHANGED <<propagator_vars, scheduled, uf, uf_call, domain, source,
                   consumed, parser, cut>>

DimacsNext ==
    \/ ParseChunk
    \/ Complete

DimacsSpec == DimacsInit /\ [][DimacsNext]_vars

(***************************************************************************)
(* C11.  Timeline against the reference: once schedule_task has been       *)
(* called for each task of a non-empty set S, in any order,                *)
(* earliest_completion_time() is the maximum over the non-empty subsets W  *)
(* of S of (min EST of W + sum of the durations of W); for a single task   *)
(* it is EST + duration.                                                   *)
(***************************************************************************)
OnTimeline == pc = "Timeline" /\ scheduled # << >>

C11_TimelineReference ==
    OnTimeline =>
        /\ ~read_fault(timeline)
        /\ earliest_completion_time(timeline) = EctOf(Range(scheduled), assignments)
        /\ Len(scheduled) = 1 =>
               earliest_completion_time(timeline) =
                   get_est(scheduled[1], assignments) + tasks[scheduled[1]]

\* Three tasks scheduled, the one with the smallest EST last, on a timeline
\* whose result is set by a proper subset of them.
C11_Witness ==
    /\ OnTimeline
    /\ Len(scheduled) = 3
    /\ \A k \in 1 .. 2 :
           get_est(scheduled[3], assignments) < get_est(scheduled[k], assignments)
    /\ earliest_completion_time(timeline) >
           SetMin({get_est(x, assignments) : x \in Range(scheduled)})
               + SumOver(tasks, Range(scheduled))

(***************************************************************************)
(* C12.  RevTimeline against the reference: once schedule_task has been    *)
(* called for each task of a non-empty set S, in any order,                *)
(* latest_starting_time() is the minimum over the non-empty subsets W of S *)
(* of (max LCT of W - sum of the durations of W); on the four tasks        *)
(* w=[0,15]/4, x=[2,13]/9, y=[9,23]/7, z=[12,14]/6 it is 23 after          *)
(* scheduling y and 13 after scheduling y then x.                          *)
(***************************************************************************)
OnRevTimeline == pc = "RevTimeline" /\ scheduled # << >>

C12_RevTimelineReference ==
    OnRevTimeline =>
        /\ ~read_fault(timeline)
        /\ latest_starting_time(timeline) = LstOf(Range(scheduled), assignments)
        /\ IsInstance(test_prop) /\ scheduled = <<2>> =>
               latest_starting_time(timeline) = 23
        /\ IsInstance(test_prop) /\ scheduled = <<2, 1>> =>
               latest_starting_time(timeline) = 13

\* test_rev: y, then x, scheduled on the RevTimeline of the four tasks.
C12_Witness ==
    /\ OnRevTimeline
    /\ IsInstance(test_prop)
    /\ scheduled = <<2, 1>>

(***************************************************************************)
(* C17.  Next-free-slice invariant: after construction and after any       *)
(* sequence of schedule_task calls that schedules each task at most once,  *)
(* for every slice index k of a Timeline or a RevTimeline S.find(k) is the *)
(* smallest index j >= k whose remaining capacity C[j] is greater than 0.  *)
(***************************************************************************)
Built == pc \in {"Timeline", "RevTimeline"}

NextFree(tl, k) == SetMin({x \in DOMAIN tl.c : x >= k /\ tl.c[x] > 0})

C17_NextFreeSlice ==
    Built =>
        /\ ~timeline.fault
        /\ \A k \in DOMAIN timeline.c :
               /\ \E x \in DOMAIN timeline.c : x >= k /\ timeline.c[x] > 0
               /\ Root(timeline.s, k) = NextFree(timeline, k)

\* Two neighbouring slices used up, the later one first: find walks over both.
C17_Witness ==
    /\ Built
    /\ Len(scheduled) >= 2
    /\ \E k \in DOMAIN timeline.c :
           /\ timeline.c[k] = 0
           /\ (k + 1) \in DOMAIN timeline.c
           /\ timeline.c[k + 1] = 0
           /\ timeline.m[scheduled[1]] = k + 1
           /\ timeline.m[scheduled[2]] = k
           /\ Root(timeline.s, k) = k + 2

(***************************************************************************)
(* C18, as stated.  Envelope index of a Timeline: E is -1 if and only if   *)
(* nothing has been scheduled, and otherwise E is the rightmost slice that *)
(* has received work, the largest k with C[k] below T[k+1] - T[k], also    *)
(* when a task fills its last slice exactly.                               *)
(***************************************************************************)
Touched(tl) == {k \in DOMAIN tl.c : tl.c[k] < tl.t[k + 1] - tl.t[k]}

C18_EnvelopeIsLastTouched ==
    pc = "Timeline" =>
        /\ timeline.e = -1 <=> scheduled = << >>
        /\ scheduled # << >> => timeline.e = SetMax(Touched(timeline))

(***************************************************************************)
(* C18, amended.  E is -1 if and only if nothing has been scheduled;       *)
(* otherwise, with k the rightmost slice that has received work, E is k    *)
(* when slice k has capacity left and k + 1, the untouched slice after it, *)
(* when slice k is full: schedule_task moves on from a slice it fills      *)
(* exactly before it writes E.  In both cases E = S.find(k) and            *)
(* T[E+1] - C[E] is the end of the work poured so far.                     *)
(***************************************************************************)
C18_EnvelopeIsNextFree ==
    pc = "Timeline" =>
        /\ timeline.e = -1 <=> scheduled = << >>
        /\ scheduled # << >> =>
               LET k == SetMax(Touched(timeline))
               IN  /\ timeline.e = IF timeline.c[k] > 0 THEN k ELSE k + 1
                   /\ timeline.e = Root(timeline.s, k)
                   /\ timeline.e \in DOMAIN timeline.c
                   /\ timeline.c[k] = 0 => (k + 1) \notin Touched(timeline)

\* A task filled its last slice exactly: E is the untouched slice after it.
C18_Witness ==
    /\ pc = "Timeline"
    /\ scheduled # << >>
    /\ timeline.c[SetMax(Touched(timeline))] = 0
    /\ timeline.e = SetMax(Touched(timeline)) + 1
    /\ \E x \in Range(scheduled) : timeline.m[x] < SetMax(Touched(timeline))

(***************************************************************************)
(* C19.  Union-find merge: on a Timeline with time points                  *)
(* [3, 5, 9, sentinel] and capacities [2, 4, K], scheduling a task of      *)
(* duration 3 whose slice is 0 leaves C[0] = 0, C[1] = 3 and C[2] = K,     *)
(* makes find(0) = find(1) = 1 and sets E = 1.                             *)
(***************************************************************************)
ThreeSlices(tl) ==
    /\ VLen(tl.t) = 4
    /\ tl.t[0] = 3 /\ tl.t[1] = 5 /\ tl.t[2] = 9

C19_PourOverTwoSlices ==
    /\ pc = "Timeline" /\ IsInstance(three_slices) /\ scheduled = << >> =>
           /\ ThreeSlices(timeline)
           /\ timeline.c[0] = 2 /\ timeline.c[1] = 4
           /\ timeline.m[0] = 0 /\ tasks[0] = 3
    /\ pc = "Timeline" /\ IsInstance(three_slices) /\ scheduled = <<0>> =>
           /\ ThreeSlices(timeline)
           /\ timeline.c[0] = 0
           /\ timeline.c[1] = 3
           /\ timeline.c[2] = timeline.t[3] - timeline.t[2]
           /\ Root(timeline.s, 0) = 1
           /\ Root(timeline.s, 1) = 1
           /\ timeline.e = 1

\* The task of duration 3 scheduled first on the three-slice Timeline.
C19_Witness ==
    /\ pc = "Timeline"
    /\ IsInstance(three_slices)
    /\ scheduled = <<0>>
    /\ ThreeSlices(timeline)

(***************************************************************************)
(* C20.  Construction: for a non-empty task array with positive durations, *)
(* Timeline::new yields T strictly increasing, the distinct ESTs followed  *)
(* by the sentinel max LCT + sum of durations, every capacity              *)
(* C[k] = T[k+1] - T[k] > 0, T[M[id]] = EST of task id, E = -1 and every   *)
(* slice its own union-find root; RevTimeline::new yields the mirror: T    *)
(* strictly decreasing over the distinct LCTs, the sentinel min EST - sum  *)
(* of durations, C[k] = T[k] - T[k+1] > 0 and T[M[id]] = LCT.              *)
(***************************************************************************)
JustBuilt(kind) == pc = kind /\ scheduled = << >>

Points(tl) == {tl.t[k] : k \in DOMAIN tl.c}

Shape(tl) ==
    /\ VLen(tl.t) >= 2
    /\ DOMAIN tl.t = Ids(VLen(tl.t))
    /\ DOMAIN tl.c = Ids(VLen(tl.t) - 1)
    /\ DOMAIN tl.m = DOMAIN tasks
    /\ DOMAIN tl.s = DOMAIN tl.t
    /\ tl.e = -1
    /\ ~tl.fault
    /\ \A k \in DOMAIN tl.s : tl.s[k] = k /\ Root(tl.s, k) = k
    /\ \A x \in DOMAIN tasks : tl.m[x] \in DOMAIN tl.c

C20_Construction ==
    /\ JustBuilt("Timeline") =>
           /\ Shape(timeline)
           /\ \A k \in DOMAIN timeline.c :
                  /\ timeline.t[k] < timeline.t[k + 1]
                  /\ timeline.c[k] = timeline.t[k + 1] - timeline.t[k]
                  /\ timeline.c[k] > 0
           /\ Points(timeline) = {get_est(x, assignments) : x \in DOMAIN tasks}
           /\ timeline.t[VLen(timeline.t) - 1] =
                  SetMax({get_lct(x, assignments) : x \in DOMAIN tasks})
                      + SumOver(tasks, DOMAIN tasks)
           /\ \A x \in DOMAIN tasks :
                  timeline.t[timeline.m[x]] = get_est(x, assignments)
    /\ JustBuilt("RevTimeline") =>
           /\ Shape(timeline)
           /\ \A k \in DOMAIN timeline.c :
                  /\ timeline.t[k] > timeline.t[k + 1]
                  /\ timeline.c[k] = timeline.t[k] - timeline.t[k + 1]
                  /\ timeline.c[k] > 0
           /\ Points(timeline) = {get_lct(x, assignments) : x \in DOMAIN tasks}
           /\ timeline.t[VLen(timeline.t) - 1] =
                  SetMin({get_est(x, assignments) : x \in DOMAIN tasks})
                      - SumOver(tasks, DOMAIN tasks)
           /\ \A x \in DOMAIN tasks :
                  timeline.t[timeline.m[x]] = get_lct(x, assignments)

\* A Timeline of three tasks, two of them with the same EST: two slices
\* before the sentinel.
C20_Witness ==
    /\ JustBuilt("Timeline")
    /\ VLen(tasks) = 3
    /\ VLen(timeline.c) = 2
    /\ timeline.m[0] = timeline.m[2]
    /\ timeline.m[1] < timeline.m[0]

(***************************************************************************)
(* C13.  Four-task push: for w=[0,15] duration 4, x=[2,13] duration 9,     *)
(* y=[9,23] duration 7, z=[12,14] duration 6 (local ids in that order)     *)
(* propagate returns Ok, and afterwards LB(x) = 2, LB(y) = 19 and          *)
(* LB(z) = 13.                                                             *)
(***************************************************************************)
FirstCallReturned == calls = 1 /\ pc = "done"

C13_FourTaskPush ==
    IsInstance(test_prop) /\ FirstCallReturned =>
        /\ status = "Ok"
        /\ lb[1] = 2
        /\ lb[2] = 19
        /\ lb[3] = 13

\* The first propagate call on the four tasks has returned.
C13_Witness ==
    /\ IsInstance(test_prop)
    /\ FirstCallReturned
    /\ lb[2] > input.lb[2]
    /\ lb[3] > input.lb[3]

(***************************************************************************)
(* C14.  Textbook example: for w=[0,4] duration 2, x=[3,5] duration 5,     *)
(* y=[7,10] duration 5, z=[4,18] duration 2 (local ids in that order)      *)
(* propagate returns Ok, and afterwards LB(w) = 0, LB(x) = 3, LB(y) = 8    *)
(* and LB(z) = 8.                                                          *)
(***************************************************************************)
C14_TextbookExample ==
    IsInstance(test_prop_example) /\ FirstCallReturned =>
        /\ status = "Ok"
        /\ lb[0] = 0
        /\ lb[1] = 3
        /\ lb[2] = 8
        /\ lb[3] = 8

\* The first propagate call on the textbook example has returned.
C14_Witness ==
    /\ IsInstance(test_prop_example)
    /\ FirstCallReturned
    /\ lb[2] > input.lb[2]
    /\ lb[3] > input.lb[3]

(***************************************************************************)
(* C15.  Empty timeline means no push: in an instance with any number of   *)
(* tasks, when the forward Timeline is still empty (E = -1,                *)
(* earliest_completion_time() = 0) at the moment the push of task i is     *)
(* recorded, propagate does not change the lower bound of i, whatever the  *)
(* entry EST of i, negative ones included.                                 *)
(***************************************************************************)
Prefix(v, n) == [k \in Ids(n) |-> v[k]]

\* The locals of the forward sweep on the bounds b when iteration p of the
\* for loop has run its while loop and is about to record.
AtRecord(b, p) ==
    LET lst == forward_i_lst(b)
        ect == forward_i_ect(b)
        L == forward_loop(sweep_start(TimelineNew(b)), lst, Prefix(ect, p),
                          b, naive_reason(b), 0)
    IN  IF L.conflict # None \/ L.panic THEN L
        ELSE forward_cursor(L, lst, b, get_ect(ect[p], b))

RecordedOnEmpty(b) ==
    {forward_i_ect(b)[p] : p \in
        {q \in DOMAIN tasks :
            LET L == AtRecord(b, q)
            IN  /\ L.conflict = None
                /\ ~L.panic
                /\ L.timeline.e = -1
                /\ earliest_completion_time(L.timeline) = 0
                /\ \/ L.blocking_task = None
                   \/ L.blocking_task = Some(forward_i_ect(b)[q])}}

C15_EmptyTimelineNoPush ==
    pc = "done" /\ status \in {"Ok", "Conflict"} =>
        \A i \in RecordedOnEmpty(entry) : lb[i] = entry.lb[i]

(***************************************************************************)
(* C21.  debug_propagate_from_scratch returns Conflict if and only if some *)
(* task has ECT > LCT on the current bounds, that is a lower bound above   *)
(* its upper bound; the conflict is reported for the first such task in    *)
(* the order of the local ids; it returns Ok otherwise, and it changes no  *)
(* bound.                                                                  *)
(***************************************************************************)
DebugReturned == pc = "done" /\ returned_at = "debug"

Inconsistent(b) ==
    {x \in DOMAIN tasks : b.lb[x] + tasks[x] > b.ub[x] + tasks[x]}

C21_DebugOracle ==
    DebugReturned =>
        /\ status \in {"Ok", "Conflict"}
        /\ status = "Conflict" <=> Inconsistent(assignments) # {}
        /\ Inconsistent(assignments) = {x \in DOMAIN tasks : lb[x] > ub[x]}
        /\ status = "Conflict" =>
               LET x == SetMin(Inconsistent(assignments))
               IN  conflict = Some({<<x, ">=", ub[x] - 1>>})
        /\ status = "Ok" => conflict = None
        /\ lb = assignments.lb
        /\ ub = assignments.ub

\* A conflict reported for task 1 where task 0 is consistent and task 2 is not.
C21_Witness ==
    /\ DebugReturned
    /\ status = "Conflict"
    /\ Inconsistent(assignments) = {1, 2}
    /\ lb[0] = ub[0]

(***************************************************************************)
(* C22, as stated.  One task of duration 2 whose start variable is created *)
(* with the domain [3, 8] and then has the values 3 and 4 removed:         *)
(* debug_propagate_from_scratch returns Conflict.                          *)
(***************************************************************************)
AfterRemovals ==
    /\ IsInstance(test_debug_propagate_fail)
    /\ Removed(0) = {3, 4}
    /\ DebugReturned

InSweep == pc \in {"forward", "reverse"}

BlockingReturn == returned_at \in {"forward_blocking", "reverse_blocking"}

CursorOrder ==
    IF pc = "forward" \/ returned_at = "forward_blocking" THEN i_lst ELSE i_ect

LoopOrder ==
    IF pc = "forward" \/ returned_at = "forward_blocking" THEN i_ect ELSE i_lst

Narrow(x, a) == get_lst(x, a) < get_ect(x, a)

Passed == {CursorOrder[p] : p \in {q \in DOMAIN CursorOrder : q < j}}

Handled == {LoopOrder[p] : p \in {q \in DOMAIN LoopOrder : q < pos}}

Outstanding == {x \in Passed \ Handled : Narrow(x, assignments)}

AtMostOneBlocking(a) ==
    /\ InSweep =>
           /\ Cardinality(Outstanding) <= 1
           /\ blocking_task = None <=> Outstanding = {}
           /\ blocking_task # None => Outstanding = {blocking_task[1]}
    /\ Returned("Conflict") /\ BlockingReturn =>
           /\ blocking_task # None
           /\ Outstanding = {blocking_task[1]}
           /\ CursorOrder[j] # blocking_task[1]
           /\ Narrow(CursorOrder[j], assignments)
           /\ conflict = Some(blocking_reason(blocking_task[1], CursorOrder[j], a))
           /\ conflict =
                  Some({<<x, ">=", a.lb[x]>> : x \in {blocking_task[1], CursorOrder[j]}}
                       \cup
                       {<<x, "<=", a.ub[x]>> : x \in {blocking_task[1], CursorOrder[j]}})

Completed(L) == L.conflict = None /\ ~L.panic

LowerRejects(P, b) == {x \in DOMAIN P : P[x].bound > b.ub[x]}

UpperRejects(P, b) == {x \in DOMAIN P : P[x].bound < b.lb[x]}

NaiveConjunction(b) ==
    {<<x, ">=", b.lb[x]>> : x \in DOMAIN tasks}
        \cup {<<x, "<=", b.ub[x]>> : x \in DOMAIN tasks}

C24_RejectedUpdateIsConflict ==
    /\ pc = "done" /\ status # "Panic" =>
           LET F == forward_sweep(entry)
           IN  Completed(F) /\ LowerRejects(F.propagations, entry) # {} =>
                   /\ status = "Conflict"
                   /\ returned_at = "lb_rejected"
    /\ pc = "done" /\ returned_at \in {"ok", "ub_rejected"} =>
           (UpperRejects(propagations, assignments) # {} =>
                /\ status = "Conflict"
                /\ returned_at = "ub_rejected")
    /\ pc = "done" /\ returned_at = "lb_rejected" =>
           /\ status = "Conflict"
           /\ lastCall.op = "set_lower_bound"
           /\ lastCall.task \in LowerRejects(propagations, entry)
           /\ lastCall.value = propagations[lastCall.task].bound
           /\ lastCall.value > ub[lastCall.task]
           /\ conflict = Some(propagations[lastCall.task].reason)
           /\ conflict = Some(NaiveConjunction(entry))
    /\ pc = "done" /\ returned_at = "ub_rejected" =>
           /\ status = "Conflict"
           /\ lastCall.op = "set_upper_bound"
           /\ lastCall.task \in UpperRejects(propagations, assignments)
           /\ lastCall.value = propagations[lastCall.task].bound
           /\ lastCall.value < lb[lastCall.task]
           /\ conflict = Some(propagations[lastCall.task].reason)
           /\ conflict = Some(NaiveConjunction(assignments))
           /\ assignments = [lb |-> lb, ub |-> entry.ub]

\* A rejected set_upper_bound on entry bounds that are not negative, after the
\* forward sweep raised a lower bound.
C24_Witness ==
    /\ pc = "done"
    /\ returned_at = "ub_rejected"
    /\ NonNegative(entry)
    /\ lb # entry.lb


(***************************************************************************)
(* The DIMACS properties read a file by its lines and tokens.  Lines are   *)
(* the pieces between line feeds, the tokens of a piece of text the runs   *)
(* of bytes between ASCII whitespace.  An integer token is 0 or a decimal  *)
(* number without a leading zero, with '-' in front for a negative one.    *)
(***************************************************************************)
FirstIndex(s, b) == CHOOSE k \in DOMAIN s : s[k] = b /\ \A h \in 1 .. (k - 1) : s[h] # b
Has(s, b) == \E k \in DOMAIN s : s[k] = b

FirstLine(s) == IF Has(s, "\n") THEN SubSeq(s, 1, FirstIndex(s, "\n") - 1) ELSE s
AfterFirstLine(s) ==
    IF Has(s, "\n") THEN SubSeq(s, FirstIndex(s, "\n") + 1, Len(s)) ELSE << >>

RECURSIVE TokensOf(_)
TokensOf(s) ==
    IF s = << >> THEN << >>
    ELSE IF is_ascii_whitespace(s[1]) THEN TokensOf(Tail(s))
    ELSE LET ends == {k \in DOMAIN s : is_ascii_whitespace(s[k])}
             n == IF ends = {} THEN Len(s) ELSE SetMin(ends) - 1
         IN  <<SubSeq(s, 1, n)>> \o TokensOf(SubSeq(s, n + 1, Len(s)))

IsIntegerToken(t) ==
    \/ t = <<"0">>
    \/ LET d == IF t[1] = "-" THEN Tail(t) ELSE t
       IN  all_digits(d) /\ d[1] # "0"

TokenValue(t) ==
    IF t[1] = "-" THEN digits_value(Tail(t), -1) ELSE digits_value(t, 1)

Values(tokens) == [k \in DOMAIN tokens |-> TokenValue(tokens[k])]

\* The clauses of a sequence of numbers: the runs ended by a 0, in order.
RECURSIVE CutAtZero(_)
CutAtZero(values) ==
    IF ~Has(values, 0) THEN << >>
    ELSE LET k == FirstIndex(values, 0)
         IN  <<SubSeq(values, 1, k - 1)>>
                 \o CutAtZero(SubSeq(values, k + 1, Len(values)))

\* What has been read is a header line that parse_cnf accepts.
CnfHeaderLine(s) ==
    /\ Has(s, "\n")
    /\ FirstLine(s) # << >>
    /\ FirstLine(s)[1] = "p"
    /\ CNFHeader_from_str(trim(FirstLine(s))).err = NoError

\* What has been read is a header line and integer tokens after it.
HeaderThenIntegers(s) ==
    /\ CnfHeaderLine(s)
    /\ \A k \in DOMAIN TokensOf(AfterFirstLine(s)) :
           IsIntegerToken(TokensOf(AfterFirstLine(s))[k])

Delivered(s) == CutAtZero(Values(TokensOf(AfterFirstLine(s))))

(***************************************************************************)
(* C25.  Clause boundaries: when parse_cnf has read a valid header line    *)
(* and integer tokens separated by ASCII whitespace, no byte was refused   *)
(* and the sink has received, in file order, the clauses got by cutting    *)
(* the numbers at each 0, the literals in order.  A line feed is a         *)
(* separator like any other: it ends no clause, and a line may hold        *)
(* several clauses.                                                        *)
(***************************************************************************)
Refused ==
    parsed.kind \in {"UnexpectedCharacter", "InvalidLiteral", "MissingHeader",
                     "InvalidHeader", "DuplicateHeader", "panic"}

C25_ClauseBoundaries ==
    (parser.on_clause = "parse_cnf" /\ HeaderThenIntegers(consumed)) =>
        /\ ~Refused
        /\ parser.sink.hard = Delivered(consumed)
        /\ parser.sink.soft = << >>

\* The test whose first clause runs over two lines and whose second line
\* holds the end of one clause and the start of the next.
C25_Witness ==
    /\ consumed = new_lines_do_not_terminate_clause
    /\ parsed = OkSink
    /\ parser.sink.hard = << <<1, -2>>, <<-1, 2>> >>
    /\ HeaderThenIntegers(consumed)


(***************************************************************************)
(* C26.  Comments are ignored: a line whose first byte after leading       *)
(* whitespace is 'c' changes nothing in what the sink receives, wherever   *)
(* it starts a line and whatever ends the line before it.  Taking such a   *)
(* line out of the file read so far, and putting one in at the start of    *)
(* any of its lines, both give the clauses the sink has received.          *)
(***************************************************************************)
LineStarts(s) ==
    {a \in DOMAIN s : a = 1 \/ s[a - 1] = "\n"}

LineEnd(s, a) ==
    IF \E k \in a .. Len(s) : s[k] = "\n"
    THEN SetMin({k \in a .. Len(s) : s[k] = "\n"})
    ELSE Len(s)

Line(s, a) == SubSeq(s, a, LineEnd(s, a))

CommentLines(s) ==
    {a \in LineStarts(s) :
        LET t == trim_start(Line(s, a)) IN t # << >> /\ t[1] = "c"}

WithoutLine(s, a) ==
    SubSeq(s, 1, a - 1) \o SubSeq(s, LineEnd(s, a) + 1, Len(s))

WholeParse(s) == parse_chunk(DimacsParserNew(parser.on_clause), s)

\* The places where a line can be put in: the start of the file and after
\* each line feed.
LinePlaces(s) == {a \in 1 .. (Len(s) + 1) : a = 1 \/ s[a - 1] = "\n"}

WithLine(s, a, line) == SubSeq(s, 1, a - 1) \o line \o SubSeq(s, a, Len(s))

CommentTexts == {<<"c", "\n">>, <<" ", "c", " ", "0", "\n">>}

C26_CommentsIgnored ==
    /\ \A a \in CommentLines(consumed) :
           parser.sink = WholeParse(WithoutLine(consumed, a)).parser.sink
    /\ \A a \in LinePlaces(consumed) : \A line \in CommentTexts :
           parser.sink = WholeParse(WithLine(consumed, a, line)).parser.sink


(***************************************************************************)
(* C27.  Unterminated clause: when parse_cnf has read a valid header line  *)
(* and integer tokens, the last of them a literal, and the file ends       *)
(* there, even directly after the digits of the only literal read since    *)
(* the last 0, the result is Err(UnterminatedClause).                      *)
(***************************************************************************)
\* complete has been called: parse_chunk returned no error up to the end of
\* the file.
Ended == parsed # NoError /\ WholeParse(consumed).err = NoError

LastToken(s) == TokensOf(s)[Len(TokensOf(s))]

EndsInLiteral(s) ==
    /\ TokensOf(AfterFirstLine(s)) # << >>
    /\ LastToken(AfterFirstLine(s)) # <<"0">>

C27_UnterminatedClause ==
    (/\ parser.on_clause = "parse_cnf"
     /\ Ended
     /\ HeaderThenIntegers(consumed)
     /\ EndsInLiteral(consumed)) => parsed = UnterminatedClause

(***************************************************************************)
(* C28.  Clause count: parsed_clauses is the number of clauses the sink    *)
(* has received, and when the file ends with every clause terminated the   *)
(* result is Ok exactly if that number is the clause count of the header,  *)
(* and otherwise Err(IncorrectClauseCount) with the count of the header    *)
(* as expected and that number as parsed.                                  *)
(***************************************************************************)
\* The file without its header and comment lines.
RECURSIVE ClauseLines(_)
ClauseLines(s) ==
    IF s = << >> THEN << >>
    ELSE LET t == trim_start(Line(s, 1))
             rest == ClauseLines(SubSeq(s, LineEnd(s, 1) + 1, Len(s)))
         IN  IF t # << >> /\ t[1] \in {"c", "p"} THEN rest
             ELSE Line(s, 1) \o rest

\* Every clause of the file is terminated: its last token is a 0.
Terminated(s) ==
    \/ TokensOf(ClauseLines(s)) = << >>
    \/ LastToken(ClauseLines(s)) = <<"0">>

Received == Len(parser.sink.hard) + Len(parser.sink.soft)

C28_ClauseCount ==
    /\ parsed.kind # "panic" => parser.parsed_clauses = Received
    /\ (Ended /\ parser.header.present /\ Terminated(consumed)) =>
           IF Received = parser.header.num_clauses
           THEN parsed = OkSink
           ELSE parsed = IncorrectClauseCount(parser.header.num_clauses, Received)

\* The test with a header announcing two clauses and a file holding one.
C28_Witness ==
    /\ consumed = incorrect_reported_clause_count
    /\ Terminated(consumed)
    /\ Received = 1
    /\ parsed = IncorrectClauseCount(2, 1)

(***************************************************************************)
(* C29.  Hard and soft clauses: when parse_wcnf has read a valid header    *)
(* line and integer tokens, every clause starting with a weight, that is   *)
(* a positive number, the clauses whose weight is the top weight of the    *)
(* header have gone to add_hard_clause without the weight, the others to   *)
(* add_soft_clause with the weight and without it in the literals, each    *)
(* in file order.                                                          *)
(***************************************************************************)
WcnfHeaderLine(s) ==
    /\ Has(s, "\n")
    /\ trim(FirstLine(s)) # << >>
    /\ trim(FirstLine(s))[1] = "p"
    /\ WCNFHeader_from_str(trim(FirstLine(s))).err = NoError

TopOf(s) == WCNFHeader_from_str(trim(FirstLine(s))).header.top_weight

Weighted(clauses) ==
    \A k \in DOMAIN clauses : clauses[k] # << >> /\ clauses[k][1] > 0

RECURSIVE HardOf(_, _)
HardOf(clauses, top) ==
    IF clauses = << >> THEN << >>
    ELSE IF Head(clauses)[1] = top
    THEN <<Tail(Head(clauses))>> \o HardOf(Tail(clauses), top)
    ELSE HardOf(Tail(clauses), top)

RECURSIVE SoftOf(_, _)
SoftOf(clauses, top) ==
    IF clauses = << >> THEN << >>
    ELSE IF Head(clauses)[1] # top
    THEN <<[weight |-> Head(clauses)[1], clause |-> Tail(Head(clauses))]>>
             \o SoftOf(Tail(clauses), top)
    ELSE SoftOf(Tail(clauses), top)

WeightedFile(s) ==
    /\ WcnfHeaderLine(s)
    /\ \A k \in DOMAIN TokensOf(AfterFirstLine(s)) :
           IsIntegerToken(TokensOf(AfterFirstLine(s))[k])
    /\ Weighted(Delivered(s))

C29_HardAndSoft ==
    (parser.on_clause = "parse_wcnf" /\ WeightedFile(consumed)) =>
        /\ ~Refused
        /\ parser.sink.hard = HardOf(Delivered(consumed), TopOf(consumed))
        /\ parser.sink.soft = SoftOf(Delivered(consumed), TopOf(consumed))

\* The test: two clauses of the top weight 3, then one of weight 2 and one
\* of weight 1.
C29_Witness ==
    /\ consumed = weighted_maxsat_is_parsed_correctly
    /\ parsed = OkSink
    /\ parser.sink.hard = << <<1, -2>>, <<-1, 2>> >>
    /\ parser.sink.soft = << [weight |-> 2, clause |-> <<1>>],
                             [weight |-> 1, clause |-> <<2>>] >>

(***************************************************************************)
(* C30.  Chunk independence: however the bytes read so far were cut into   *)
(* chunks, inside a header, a comment or a literal as well, the parser is  *)
(* in the state one parse_chunk call on all of them leaves, the sink has   *)
(* received the same clauses in the same order, and the result returned,   *)
(* Ok or the error, is the one returned for the single chunk.              *)
(***************************************************************************)
WholeResult(s) ==
    IF WholeParse(s).err # NoError THEN WholeParse(s).err
    ELSE complete(WholeParse(s).parser)

C30_ChunkIndependence ==
    /\ parser.sink = WholeParse(consumed).parser.sink
    /\ parsed = NoError =>
           /\ WholeParse(consumed).err = NoError
           /\ WholeParse(consumed).parser = parser
    /\ parsed # NoError => parsed = WholeResult(consumed)

\* The test with comment lines, read in chunks cut inside the header,
\* inside a comment and inside a literal.
C30_Witness ==
    /\ consumed = comments_are_ignored
    /\ cut = {"Header", "Comment", "Literal"}
    /\ parsed = OkSink
    /\ parser.sink.hard = << <<1, -2>>, <<-1, 2>> >>


(***************************************************************************)
(* C31.  Header errors.  A terminating 0 read when no header line has been *)
(* completed gives Err(MissingHeader).  A file that ends without a         *)
(* completed header line gives Err(MissingHeader).  A second well-formed   *)
(* header line gives Err(DuplicateHeader), and the sink is the one the     *)
(* first header line created, with the clauses it had received.            *)
(***************************************************************************)
StartsWithP(line) == trim_start(line) # << >> /\ trim_start(line)[1] = "p"

\* The lines that start with 'p' and have their line feed.
CompletedPLines(s) ==
    {a \in LineStarts(s) : StartsWithP(Line(s, a)) /\ s[LineEnd(s, a)] = "\n"}

WellFormed(line) ==
    IF parser.on_clause = "parse_cnf"
    THEN CNFHeader_from_str(trim(line)).err = NoError
    ELSE WCNFHeader_from_str(trim(line)).err = NoError

AllIntegers(s) ==
    \A k \in DOMAIN TokensOf(s) : IsIntegerToken(TokensOf(s)[k])

\* Integer tokens, a 0 among them, and no line starting with 'p'.
ZeroBeforeHeader(s) ==
    /\ \A a \in LineStarts(s) : ~StartsWithP(Line(s, a))
    /\ AllIntegers(s)
    /\ \E k \in DOMAIN TokensOf(s) : TokensOf(s)[k] = <<"0">>

\* The file starts with a well-formed header line, goes on with integer
\* tokens and then holds a second well-formed header line, at a.
SecondHeaderAt(s, a) ==
    /\ a \in CompletedPLines(s)
    /\ a > 1
    /\ CompletedPLines(s) \cap (1 .. (a - 1)) = {1}
    /\ WellFormed(Line(s, 1))
    /\ WellFormed(Line(s, a))
    /\ AllIntegers(SubSeq(s, LineEnd(s, 1) + 1, a - 1))

\* The file as far as it is known: when parse_chunk has returned an error
\* the bytes of the opening that were never read are in the file as well.
File ==
    IF WholeParse(consumed).err # NoError /\ Len(consumed) < Len(source.opening)
    THEN source.opening
    ELSE consumed

C31_HeaderErrors ==
    /\ ZeroBeforeHeader(consumed) => parsed = MissingHeader
    /\ (Ended /\ CompletedPLines(consumed) = {}) => parsed = MissingHeader
    /\ \A a \in LineStarts(File) :
           SecondHeaderAt(File, a) =>
               /\ parsed = DuplicateHeader
               /\ parser.sink.present
               /\ parser.sink = WholeParse(SubSeq(File, 1, a - 1)).parser.sink

(***************************************************************************)
(* The schedule_task calls of one sweep iteration, read off the step: the  *)
(* cursor loop schedules the elements it passes that have LST >= ECT, and  *)
(* the iteration of the blocking task schedules that task.                 *)
(***************************************************************************)
Sweeping == pc \in {"forward", "reverse"}

\* The vector the cursor j runs over and the vector of the for loop.
CursorVector == IF pc = "forward" THEN i_lst ELSE i_ect
LoopVector == IF pc = "forward" THEN i_ect ELSE i_lst

CursorSchedules(k) == get_lst(k, assignments) >= get_ect(k, assignments)

RECURSIVE CursorCalls(_, _)
CursorCalls(from, to) ==
    IF from >= to THEN << >>
    ELSE (IF CursorSchedules(CursorVector[from])
          THEN <<CursorVector[from]>> ELSE << >>)
         \o CursorCalls(from + 1, to)

BlockingAfterCursor(from, to) ==
    IF blocking_task # None THEN blocking_task
    ELSE LET B == {x \in from .. to - 1 : ~CursorSchedules(CursorVector[x])}
         IN  IF B = {} THEN None ELSE Some(CursorVector[SetMin(B)])

\* The calls of the step from this state to the next one, in call order.
StepCalls ==
    IF status' = "none" /\ BlockingAfterCursor(j, j') = Some(LoopVector[pos])
    THEN Append(CursorCalls(j, j'), LoopVector[pos])
    ELSE CursorCalls(j, j')

RECURSIVE AfterCalls(_, _)
AfterCalls(tl, cs) ==
    IF cs = << >> THEN tl
    ELSE AfterCalls(schedule_task(tl, Head(cs)), Tail(cs))

\* Every call of the sequence paired with the timeline it is made on.
CallsOn(tl, cs) ==
    {[timeline |-> AfterCalls(tl, SubSeq(cs, 1, n - 1)), task |-> cs[n]] :
        n \in 1 .. Len(cs)}

\* The delta of every iteration of the pouring loop, in order.
RECURSIVE PourDeltas(_, _, _)
PourDeltas(tl, rho, k) ==
    IF rho > 0 /\ k \in DOMAIN tl.c
    THEN LET delta == Min(tl.c[k], rho)
             c1 == [tl.c EXCEPT ![k] = @ - delta]
         IN  <<delta>> \o
             (IF c1[k] = 0
              THEN LET f == find(union(tl.s, k, k + 1), k)
                   IN  PourDeltas([tl EXCEPT !.c = c1, !.s = f.parent],
                                  rho - delta, f.root)
              ELSE PourDeltas([tl EXCEPT !.c = c1], rho - delta, k))
    ELSE << >>

ScheduleDeltas(tl, task) ==
    LET f == find(tl.s, tl.m[task])
    IN  PourDeltas([tl EXCEPT !.s = f.parent], tasks[task], f.root)

RECURSIVE SeqSum(_)
SeqSum(q) == IF q = << >> THEN 0 ELSE Head(q) + SeqSum(Tail(q))

InCall == pc \notin {"idle", "done"}
CallReturned == pc = "done" /\ status \in {"Ok", "Conflict"}

(***************************************************************************)
(* C32.  Termination of propagate.  A call that has started returns, with  *)
(* Ok or with Conflict.  Inside a sweep the cursor j never decreases and   *)
(* never passes N - 1; the step's timeline is the one its schedule_task    *)
(* calls leave; and in every such call each iteration of the pouring loop  *)
(* takes delta >= 1, the deltas adding up to the task's duration, so that  *)
(* rho reaches 0.                                                          *)
(***************************************************************************)
C32_SweepStep ==
    Sweeping =>
        /\ j' >= j
        /\ j' <= VLen(tasks) - 1
        /\ timeline' = AfterCalls(timeline, StepCalls)
        /\ \A call \in CallsOn(timeline, StepCalls) :
               LET d == ScheduleDeltas(call.timeline, call.task)
               IN  /\ \A n \in 1 .. Len(d) : d[n] >= 1
                   /\ SeqSum(d) = tasks[call.task]

\* The step the call has reached can be taken: its guard holds.
StepGuard ==
    \/ pc \in {"forward", "reverse"} /\ pos < VLen(tasks)
    \/ pc \in {"apply_lb", "apply_ub"}

C32_Termination ==
    /\ [](InCall => StepGuard)
    /\ [][C32_SweepStep]_vars
    /\ InCall ~> CallReturned

\* A call over the largest array returned Ok with the cursor at N - 1 and a
\* task poured over more than one slice.
C32_Witness ==
    /\ pc = "done"
    /\ status = "Ok"
    /\ VLen(tasks) = MaxTasks
    /\ j = VLen(tasks) - 1
    /\ \E k \in DOMAIN timeline.c : timeline.c[k] = 0

(***************************************************************************)
(* C33.  Capacity conservation.  On a Timeline or a RevTimeline, after any *)
(* sequence of schedule_task calls (each task at most once), T and M are   *)
(* those of construction, every capacity lies between 0 and its value at   *)
(* construction, and the capacity consumed over all slices is the sum of   *)
(* the durations of the tasks scheduled so far; and a call for task t      *)
(* changes no capacity of a slice with index below M[t].                   *)
(***************************************************************************)
Constructed ==
    IF pc = "Timeline" THEN TimelineNew(assignments)
    ELSE RevTimelineNew(assignments)

ConsumedCapacity(tl0, tl) ==
    SumOver([k \in DOMAIN tl.c |-> tl0.c[k] - tl.c[k]], DOMAIN tl.c)

C33_Conserved ==
    Built =>
        /\ timeline.t = Constructed.t
        /\ timeline.m = Constructed.m
        /\ DOMAIN timeline.c = DOMAIN Constructed.c
        /\ \A k \in DOMAIN timeline.c :
               0 <= timeline.c[k] /\ timeline.c[k] <= Constructed.c[k]
        /\ ConsumedCapacity(Constructed, timeline) =
               SumOver(tasks, Range(scheduled))

C33_ScheduleStep ==
    (Built /\ scheduled' # scheduled) =>
        LET task == scheduled'[Len(scheduled')]
        IN  /\ timeline'.t = timeline.t
            /\ timeline'.m = timeline.m
            /\ \A k \in DOMAIN timeline.c :
                   k < timeline.m[task] => timeline'.c[k] = timeline.c[k]

C33_CapacityConservation ==
    /\ []C33_Conserved
    /\ [][C33_ScheduleStep]_vars

\* Every task of a three-task array scheduled, one of them starting in a
\* slice after the first and one slice used up.
C33_Witness ==
    /\ Built
    /\ Len(scheduled) = MaxTasks
    /\ timeline.m[scheduled[Len(scheduled)]] > 0
    /\ \E k \in DOMAIN timeline.c : timeline.c[k] = 0
    /\ \E k \in DOMAIN timeline.c :
           0 < timeline.c[k] /\ timeline.c[k] < Constructed.c[k]

(***************************************************************************)
(* C34.  Sentinel sufficiency.  During a propagate call, on the timeline   *)
(* of the running sweep, before and after every schedule_task call: the    *)
(* last slice has capacity left, find leads from every slice to a slice of *)
(* C and never to the sentinel index, no access to C or T has left their   *)
(* bounds, and the call does not end in a panic.                           *)
(***************************************************************************)
LastSlice(tl) == VLen(tl.c) - 1

SentinelSafe(tl) ==
    /\ ~tl.fault
    /\ ~read_fault(tl)
    /\ LastSlice(tl) >= 0
    /\ tl.c[LastSlice(tl)] > 0
    /\ \A k \in DOMAIN tl.c : find(tl.s, k).root \in DOMAIN tl.c

C34_SweepStep ==
    Sweeping =>
        /\ status' # "Panic"
        /\ timeline' = AfterCalls(timeline, StepCalls)
        /\ \A call \in CallsOn(timeline, StepCalls) :
               /\ SentinelSafe(call.timeline)
               /\ SentinelSafe(schedule_task(call.timeline, call.task))

C34_SentinelSufficiency ==
    /\ [](calls > 0 => (status # "Panic" /\ SentinelSafe(timeline)))
    /\ [][C34_SweepStep]_vars

\* A sweep whose schedule_task calls have reached the last slice.
C34_Witness ==
    /\ Sweeping
    /\ pos > 0
    /\ timeline.e = LastSlice(timeline)
    /\ LastSlice(timeline) > 0
    /\ SentinelSafe(timeline)

(***************************************************************************)
(* The tasks a sweep has scheduled when its cursor is at jj and its for    *)
(* loop at pp: the elements before the cursor with LST >= ECT, and the     *)
(* elements before the loop index with LST < ECT that the cursor had       *)
(* passed, which were scheduled as the blocking task of their iteration.   *)
(***************************************************************************)
IndexIn(v, x) == CHOOSE k \in DOMAIN v : v[k] = x

ScheduledAt(cv, lv, jj, pp) ==
    {cv[x] : x \in {y \in 0 .. jj - 1 : CursorSchedules(cv[y])}}
    \cup {lv[x] : x \in {y \in 0 .. pp - 1 :
                            /\ ~CursorSchedules(lv[y])
                            /\ IndexIn(cv, lv[y]) < jj}}

SweepTimeline ==
    IF pc = "forward" THEN TimelineNew(assignments)
    ELSE RevTimelineNew(assignments)

NoDuplicates(q) == \A m, n \in DOMAIN q : q[m] = q[n] => m = n

(***************************************************************************)
(* C35.  Each task is scheduled at most once per sweep.  The calls of a    *)
(* sweep step are calls for different tasks, none of them a task the sweep *)
(* has scheduled before; the tasks scheduled so far grow by exactly the    *)
(* step's calls, and the capacity the timeline has lost is the sum of      *)
(* their durations, each counted once.                                     *)
(***************************************************************************)
C35_SweepStep ==
    Sweeping =>
        LET cv == CursorVector
            lv == LoopVector
            before == ScheduledAt(cv, lv, j, pos)
            after == ScheduledAt(cv, lv, j', pos')
        IN  /\ NoDuplicates(StepCalls)
            /\ Range(StepCalls) \cap before = {}
            /\ after = before \cup Range(StepCalls)
            /\ timeline' = AfterCalls(timeline, StepCalls)

C35_Consumed ==
    Sweeping =>
        ConsumedCapacity(SweepTimeline, timeline) =
            SumOver(tasks, ScheduledAt(CursorVector, LoopVector, j, pos))

C35_ScheduledOnce ==
    /\ []C35_Consumed
    /\ [][C35_SweepStep]_vars

\* A sweep that has scheduled one task through the cursor loop and another
\* as a blocking task.
C35_Witness ==
    /\ Sweeping
    /\ \E x, y \in ScheduledAt(CursorVector, LoopVector, j, pos) :
           CursorSchedules(x) /\ ~CursorSchedules(y)

(***************************************************************************)
(* C36.  Postponed tasks are always resolved.  A task that is blocking     *)
(* after a sweep step has its own iteration still to come, and the         *)
(* postponed tasks are tasks whose iteration is over, waiting for it; the  *)
(* iteration of the blocking task empties the slot and the list.  A sweep  *)
(* that ends without Conflict ends with the slot empty, the list empty and *)
(* one recorded bound for every task; and a blocking task does not stay:   *)
(* the slot is emptied again or the call returns Conflict.                 *)
(***************************************************************************)
SweepEnds == Sweeping /\ pc' # pc /\ status' = "none"

C36_SweepStep ==
    Sweeping =>
        /\ status' = "none" =>
               /\ blocking_task' # None =>
                      /\ IndexIn(LoopVector, blocking_task'[1]) >= pos'
                      /\ \A n \in DOMAIN postponed_tasks' :
                             IndexIn(LoopVector, postponed_tasks'[n]) < pos'
               /\ blocking_task' = None => postponed_tasks' = << >>
               /\ BlockingAfterCursor(j, j') = Some(LoopVector[pos]) =>
                      blocking_task' = None
        /\ SweepEnds =>
               /\ blocking_task' = None
               /\ postponed_tasks' = << >>
               /\ DOMAIN propagations' = DOMAIN tasks

C36_PostponedResolved ==
    /\ [][C36_SweepStep]_vars
    /\ (Sweeping /\ blocking_task # None)
           ~> (blocking_task = None \/ status = "Conflict")

\* A forward sweep over the largest array that ended without Conflict after
\* it resolved a blocking task whose iteration was not the first.
C36_Witness ==
    /\ pc = "apply_lb"
    /\ pending = DOMAIN tasks
    /\ VLen(tasks) = MaxTasks
    /\ blocking_task = None
    /\ postponed_tasks = << >>
    /\ \E y \in ScheduledAt(i_lst, i_ect, j, pos) :
           ~CursorSchedules(y) /\ IndexIn(i_ect, y) > 0

(***************************************************************************)
(* C37.  Order independence of scheduling.  On a Timeline or RevTimeline,  *)
(* the tasks scheduled so far, scheduled on the constructed timeline in    *)
(* ascending order of their ids instead, give the same C, the same E, the  *)
(* same root for every slice and the same earliest_completion_time()       *)
(* (latest_starting_time()), so that any two orders agree; and no call     *)
(* makes E or earliest_completion_time() smaller.                          *)
(***************************************************************************)
RECURSIVE Ascending(_)
Ascending(S) ==
    IF S = {} THEN << >>
    ELSE <<SetMin(S)>> \o Ascending(S \ {SetMin(S)})

SameTimeline(x, y) ==
    /\ x.c = y.c
    /\ x.e = y.e
    /\ x.fault = y.fault
    /\ \A k \in DOMAIN x.s : Root(x.s, k) = Root(y.s, k)

ReadOf(tl) ==
    IF pc = "Timeline" THEN earliest_completion_time(tl)
    ELSE latest_starting_time(tl)

C37_SameInAnyOrder ==
    Built =>
        LET other == AfterCalls(Constructed, Ascending(Range(scheduled)))
        IN  /\ SameTimeline(timeline, other)
            /\ ReadOf(timeline) = ReadOf(other)

C37_ScheduleStep ==
    (Built /\ scheduled' # scheduled) =>
        /\ timeline'.e >= timeline.e
        /\ pc = "Timeline" =>
               earliest_completion_time(timeline') >=
                   earliest_completion_time(timeline)

C37_OrderIndependence ==
    /\ []C37_SameInAnyOrder
    /\ [][C37_ScheduleStep]_vars

\* The same, with the completion time compared only from the first call on:
\* before it earliest_completion_time() is the 0 of the empty Timeline.  On
\* a RevTimeline latest_starting_time() never grows.
C37_ScheduleStepAfterFirstCall ==
    (Built /\ scheduled' # scheduled) =>
        /\ timeline'.e >= timeline.e
        /\ (pc = "Timeline" /\ scheduled # << >>) =>
               earliest_completion_time(timeline') >=
                   earliest_completion_time(timeline)
        /\ pc = "RevTimeline" =>
               latest_starting_time(timeline') <=
                   latest_starting_time(timeline)

C37_AfterFirstCall ==
    /\ []C37_SameInAnyOrder
    /\ [][C37_ScheduleStepAfterFirstCall]_vars

====
